---- MODULE Spec2Model ----
(***************************************************************************)
(* Verification model of the audio-reactive Julia renderer                 *)
(* (app/fractals.py, julia_audio_frames_2d) and of the GUI progress        *)
(* callback that observes it (app/gui.py).                                 *)
(*                                                                         *)
(* Numbers.  Complex constants (base_c, amp, offsets, drift, c_frame) are  *)
(* fixed-point integers counting millionths.  Feature values (rms, cent,   *)
(* both in [0,1]) count thousandths.  A product of a constant and a        *)
(* feature is rescaled by truncation toward zero; the rounding of the      *)
(* last floating-point bit is not represented.                             *)
(***************************************************************************)
EXTENDS Integers, Sequences, FiniteSets, TLC

\* ------------------------------------------------------------------ bounds
\* Longest rms / cent array explored.
MaxFrames == 3

\* Length of the constant feature stream of the calm scenario.
CalmFrames == 10

\* Renders started one after the other by the two callers.
MaxRenders == 2

\* Longest feature array handed to the conditioner.
MaxLen == 3

\* Videos registered in one run of the video manager.
MaxRegistered == 3

\* Worker threads started in one run of the GUI, and progress reports of
\* one worker.
MaxWorkers == 2

MaxReports == 1

\* Shape of the grid, iteration cap and number of prange workers of the
\* escape-time kernel.
KernelW == 2

KernelH == 2

KernelMaxIter == 3

KernelWorkers == 2

\* -------------------------------------------------------- number helpers
Abs(x) == IF x < 0 THEN -x ELSE x

Min(x, y) == IF x <= y THEN x ELSE y

\* Division rounding toward zero (Python's int() of a float quotient).
TruncDiv(x, y) == IF x >= 0 THEN x \div y ELSE -((-x) \div y)

RECURSIVE Pow(_, _)
Pow(base, e) == IF e = 0 THEN 1 ELSE base * Pow(base, e - 1)

\* One thousand thousandths: the feature value 1.0.
FeatureOne == 10 * 100

\* The feature value 0.5 of "a - 0.5" / "b - 0.5".
FeatureHalf == FeatureOne \div 2

\* Feature values the arrays are drawn from (0.0 and 1.0).
Levels == {0, FeatureOne}

\* Python's None for prev_real / prev_imag; a number v is held as <<v>>.
None == << >>

Some(v) == <<v>>

Val(opt) == opt[1]

\* --------------------------------------------------- program constants
\* alpha_c = 0.12, as hundredths.
alpha_c == 12

\* drift = 0.0006, in millionths.
drift == 600

\* A float that may be NaN or infinite: the flag and, when finite, the value.
Finite(v) == [finite |-> TRUE, value |-> v]

NonFinite == [finite |-> FALSE, value |-> 0]

\* JULIA_PRESETS: base constant, modulation amplitudes and view rectangle
\* (x_min, x_max, y_min, y_max) in millionths, gamma in hundredths.  A key
\* the dict does not hold (video_quality, custom_main_color,
\* custom_accent_color) is None.
JULIA_PRESETS ==
    [ calm      |-> [ base_c_real |-> -620000, base_c_imag |-> 430000,
                      amp_real    |->  120000, amp_imag    |->  60000,
                      max_iter    |-> 400, palette |-> "ocean",
                      gamma       |-> Finite(95),
                      view        |-> <<-1200000, 1200000, -1000000, 1000000>>,
                      video_quality |-> None, custom_main_color |-> None,
                      custom_accent_color |-> None ],
      ethereal  |-> [ base_c_real |-> -550000, base_c_imag |-> 480000,
                      amp_real    |->  180000, amp_imag    |-> 120000,
                      max_iter    |-> 400, palette |-> "ethereal",
                      gamma       |-> Finite(100),
                      view        |-> <<-1300000, 1300000, -1100000, 1100000>>,
                      video_quality |-> None, custom_main_color |-> None,
                      custom_accent_color |-> None ],
      energetic |-> [ base_c_real |-> -700000, base_c_imag |-> 270150,
                      amp_real    |->  650000, amp_imag    |-> 550000,
                      max_iter    |-> 400, palette |-> "fire",
                      gamma       |-> Finite(85),
                      view        |-> <<-1200000, 1200000, -1000000, 1000000>>,
                      video_quality |-> None, custom_main_color |-> None,
                      custom_accent_color |-> None ] ]

\* Names of PALETTES that the model uses.
PALETTES == {"fire", "ocean", "ethereal"}

\* drift * sin(2*pi*i/240) for i = 0, 1, 2, ..., rounded to millionths.
DriftSinTable == <<0, 16, 31, 47, 63, 78, 94, 109, 125, 140, 155, 170>>

\* drift * cos(2*pi*i/240) for i = 0, 1, 2, ..., rounded to millionths.
DriftCosTable == <<600, 600, 599, 598, 597, 595, 593, 590, 587, 583, 580, 575>>

DriftSin(idx) == DriftSinTable[idx + 1]

DriftCos(idx) == DriftCosTable[idx + 1]

\* Configured output size (width x height) and the growth factor
\* dimension_factor = DimFactorNum / DimFactorDen of dynamic_dimensions.
width == 4

height == 3

DimFactorNum == 3

DimFactorDen == 2

\* ------------------------------------------------------------- state
VARIABLES
    \* inputs of one call of julia_audio_frames_2d
    rms, cent,              \* feature arrays (sequences over Levels)
    preset,                 \* the preset record
    c_base_offset_real, c_base_offset_imag,
    progress_callback,      \* "None" | "gui" | "other"
    audio_given,            \* audio_path is set and the file exists
    dynamic_dimensions,
    dimension_factor,       \* <<numerator, denominator>>
    rotation_enabled,       \* rotation_velocity is one quarter turn per frame
    z_offset_real, z_offset_imag,
    platform,               \* "posix" | "windows": semantics of os.rename
    \* control
    pc,                     \* position in julia_audio_frames_2d
    exc,                    \* pending exception: "none" or where it was raised
    \* frame loop locals
    i, a, b,
    current_width, current_height,
    prev_real, prev_imag,
    c_real, c_imag,         \* mapped target of the current frame
    c_real_s, c_imag_s,     \* smoothed constant of the current frame
    rgb_frame,
    rotation_angle,         \* in units of rotation_velocity
    Z0,                     \* the complex plane, see MakePlane
    max_width, max_height,  \* shape of the preallocated nu_buf / t_buf
    \* the encoder
    writer,                 \* "unopened" | "open" | "closed"
    close_count,
    appended,               \* frames received by writer.append_data, in order
    \* observation history
    kernel_calls,           \* arguments of every julia(...) call, in order
    calls,                  \* arguments of every progress_callback call
    message_queue,          \* the GUI's queue.Queue()
    cancel_requested, cancel_frame,
    \* files
    fs_video, fs_temp,      \* content at video_path / at the _temp.mp4 path
    mux_failed,
    \* the callers of julia_audio_frames_2d (gui.py worker, main.py)
    heap,                   \* the dict objects: heap[r] is the dict at r
    preset_ref,             \* the dict the caller's "preset" names, 0: none
    caller,                 \* "none" | "gui" | "main"
    worker_pc,              \* position in generate_video_worker
    settings,               \* the values read from self.settings
    renders,                \* calls of julia_audio_frames_2d made so far
    entry_preset,           \* the passed dict as it was when the call began
    \* julia_escape_smooth and the NumPy fallback of julia
    kpc,                    \* "idle" | "numba" | "fallback" | "done"
    NUMBA_AVAILABLE,
    Z0_real, Z0_imag,       \* the grid, cell <<y, x>> -> thousandths
    kcr, kci,               \* the constant (cr, ci), thousandths
    max_iter,
    thread,                 \* the prange workers and their loop locals
    row_state,              \* row -> "todo" | "taken" | "done"
    nu, alive,              \* the result fields
    fb_Z, it, fb_i,         \* locals Z, it, i of the fallback loop
    \* julia after the kernel: normalisation, palette, interior colour
    palette, gamma,         \* arguments of julia
    custom_palette,         \* None or Some(hex digits of the main colour)
    custom_accent,          \* None or Some(hex digits of the accent colour)
    t_buf,                  \* t, cell -> thousandths
    rgb,                    \* the RGB array, cell -> <<r, g, b>>
    \* audio_features: _norm01_robust and smooth_ar
    fpc,                    \* "idle" | "norm" | "smooth" | "loop" | "done"
    raw_x,                  \* the raw feature array
    x_n,                    \* the array handed to smooth_ar, thousandths
    alpha_up, alpha_down,   \* hundredths
    out,                    \* smooth_ar's out, as far as it is filled
    \* video_manager
    metadata_file,          \* content of metadata.json: stem -> list
    disk,                   \* the places <<loc, name>> where a video exists
    next_file,              \* name of the next video that is written
    last_call,              \* the last call of video_manager
    \* gui.py: start_generation, generate_video_worker, check_queue
    is_generating,
    workers,                \* the worker threads started so far
    ui_pc                   \* "idle" | "dialog": the title dialog is open

inputs == <<rms, cent, preset, c_base_offset_real, c_base_offset_imag,
            progress_callback, audio_given, dynamic_dimensions,
            dimension_factor, rotation_enabled, z_offset_real, z_offset_imag,
            platform>>

locals == <<i, a, b, current_width, current_height, prev_real, prev_imag,
            c_real, c_imag, c_real_s, c_imag_s, rgb_frame>>

plane == <<rotation_angle, Z0, max_width, max_height>>

encoder == <<writer, close_count, appended>>

history == <<kernel_calls, calls, message_queue>>

cancel == <<cancel_requested, cancel_frame>>

files == <<fs_video, fs_temp, mux_failed>>

gui == <<heap, preset_ref, caller, worker_pc, settings, renders, entry_preset>>

kern == <<kpc, NUMBA_AVAILABLE, Z0_real, Z0_imag, kcr, kci, max_iter, thread,
          row_state, nu, alive, fb_Z, it, fb_i>>

colour == <<palette, gamma, custom_palette, custom_accent, t_buf, rgb>>

features == <<fpc, raw_x, x_n, alpha_up, alpha_down, out>>

videos == <<metadata_file, disk, next_file, last_call>>

ui == <<is_generating, workers, ui_pc>>

\* The parts of the application next to the render pipeline.
lib == <<colour, features, videos, ui>>

vars == <<inputs, pc, exc, locals, plane, encoder, history, cancel, files,
          gui, kern, lib>>

\* int(size * dimension_factor ** idx)
GrownSize(size, idx) ==
    (size * Pow(dimension_factor[1], idx)) \div Pow(dimension_factor[2], idx)

\* ------------------------------------------------------ the complex plane
\* A plane is held as the sampling shape of make_plane and the rigid motion
\* applied to it since: the point of pixel (row, col) is
\*   rot^turns(P(row, col) - centre) + centre + shift
\* where P is the linspace grid of the view, rot one quarter turn (the model's
\* rotation_velocity) and centre the middle of the view.
\* Variant: the grid is built with its axes exchanged.
MakePlaneTransposed(w, h) ==
    [width |-> h, height |-> w, turns |-> 0, shift_real |-> 0, shift_imag |-> 0]

\* make_plane(width, height, view): shape (height, width).
MakePlane(w, h) ==
    [width |-> w, height |-> h, turns |-> 0, shift_real |-> 0, shift_imag |-> 0]

\* Z0 = None of line 714 (dynamic_dimensions); line 762 assigns a plane
\* before any use.
NoPlane == [width |-> 0, height |-> 0, turns |-> 0, shift_real |-> 0, shift_imag |-> 0]

\* Multiplication of the point <<x, y>> by exp(1j * n * rotation_velocity).
RECURSIVE Rot(_, _)
Rot(p, n) == IF n = 0 THEN p ELSE Rot(<<-p[2], p[1]>>, n - 1)

\* Lines 779-781: (Z0 - centre) * exp(1j * angle) + centre.
RotateAboutCentre(Z, angle) ==
    LET s == Rot(<<Z.shift_real, Z.shift_imag>>, angle % 4)
    IN [Z EXCEPT !.turns = @ + angle, !.shift_real = s[1], !.shift_imag = s[2]]

\* Line 785: Z0 + (z_offset_real + 1j * z_offset_imag).
AddOffset(Z, re, im) ==
    [Z EXCEPT !.shift_real = @ + re, !.shift_imag = @ + im]

\* np.linspace(lo, hi, n)[k], k zero-based.
Linspace(lo, hi, n, k) ==
    IF n <= 1 THEN lo ELSE lo + TruncDiv(k * (hi - lo), n - 1)

CentreX == (preset.view[1] + preset.view[2]) \div 2

CentreY == (preset.view[3] + preset.view[4]) \div 2

\* The complex number held by plane Z at pixel (row, col), zero-based.
PlanePoint(Z, row, col) ==
    LET x == Linspace(preset.view[1], preset.view[2], Z.width, col)
        y == Linspace(preset.view[3], preset.view[4], Z.height, row)
        r == Rot(<<x - CentreX, y - CentreY>>, Z.turns % 4)
    IN <<r[1] + CentreX + Z.shift_real, r[2] + CentreY + Z.shift_imag>>

\* Variant: the buffers are sized for the first frame only.
BufferSizeInitial(size, frames) == size

\* Lines 717-718: max_width / max_height of the reusable buffers.
BufferSize(size, frames) ==
    IF dynamic_dimensions THEN GrownSize(size, frames) ELSE size

\* Lines 826-827: nu_buf[:current_height, :current_width] when dynamic,
\* the whole buffer otherwise; one axis.
BufferSlice(allocated, current) ==
    IF dynamic_dimensions THEN Min(allocated, current) ELSE allocated

\* Sequences over S of length 0..n.
SeqsUpTo(S, n) == UNION { [1..k -> S] : k \in 0..n }

\* Preset and c_base_offset pairs a render is started with (millionths).
Configs ==
    { [preset |-> "calm", c_base_offset_real |-> 0, c_base_offset_imag |-> 0],
      [preset |-> "energetic", c_base_offset_real |-> 10000,
       c_base_offset_imag |-> -20000] }

\* Frame index of "no frame yet".
NoFrame == 0 - 1

\* Every dict of the module-level JULIA_PRESETS table, in heap order.
PresetNames == <<"calm", "energetic", "ethereal">>

\* JULIA_PRESETS[name] as a reference into the heap.
TableRef(name) == CHOOSE r \in DOMAIN PresetNames : PresetNames[r] = name

\* The heap when fractals.py has been imported: the table's dicts only.
TableHeap == [r \in DOMAIN PresetNames |-> JULIA_PRESETS[PresetNames[r]]]

NoSettings ==
    [palette_choice |-> "auto", auto_preset |-> "calm",
     use_custom_palette |-> FALSE, intensity |-> 100, quality |-> "high",
     max_iterations |-> 400]

\* ------------------------------------- video_manager: the idle state
\* The audio stems of the model.  The audio file of "song" is under
\* MUSIC_ROOT, that of "tune" is outside the application root.
Stems == {"song", "tune"}

AudioLoc(stem) == IF stem = "song" THEN "app" ELSE "outside"

\* A path value: its form ("absolute", "relative" to the app root, or a bare
\* file "name"), whether the file it was made from is under APP_ROOT, and
\* the file's name.
PathOf(form, loc, name) == [form |-> form, loc |-> loc, name |-> name]

\* A stem that is not a key of the metadata.
NoKey == [present |-> FALSE, videos |-> << >>]

\* ensure_video_directories (lines 18-23) has written an empty metadata.json.
EmptyMetadata == [stem \in Stems |-> NoKey]

\* The last call of the module: its arguments, its result and the content
\* of metadata.json when it began.
NoCall == [op |-> "none", stem |-> "song", info |-> << >>, ok |-> FALSE,
           videos |-> << >>, before |-> EmptyMetadata]

\* No call of video_manager has been made.
VideosIdle ==
    /\ metadata_file = EmptyMetadata
    /\ disk = {}
    /\ next_file = 1
    /\ last_call = NoCall

\* Lines 50-52 and 101: the window is up, nothing is being generated.
UiIdle ==
    /\ is_generating = FALSE
    /\ workers = << >>
    /\ ui_pc = "idle"

\* julia has not reached its colouring stage.
ColourIdle ==
    /\ palette = "fire"
    /\ gamma = 1
    /\ custom_palette = None
    /\ custom_accent = None
    /\ t_buf = << >>
    /\ rgb = << >>

\* extract_features is not running.
FeaturesIdle ==
    /\ fpc = "idle"
    /\ raw_x = << >>
    /\ x_n = << >>
    /\ alpha_up = 0
    /\ alpha_down = 0
    /\ out = << >>

\* Nothing next to the render pipeline is running.
LibIdle ==
    /\ ColourIdle
    /\ FeaturesIdle
    /\ VideosIdle
    /\ UiIdle

\* No caller of julia_audio_frames_2d is modelled.
GuiIdle ==
    /\ heap = TableHeap
    /\ preset_ref = 0
    /\ caller = "none"
    /\ worker_pc = "idle"
    /\ settings = NoSettings
    /\ renders = 0
    /\ entry_preset = JULIA_PRESETS["calm"]

\* The escape-time kernel is not running.
KernelIdle ==
    /\ kpc = "idle"
    /\ NUMBA_AVAILABLE = TRUE
    /\ Z0_real = << >>
    /\ Z0_imag = << >>
    /\ kcr = 0
    /\ kci = 0
    /\ max_iter = 0
    /\ thread = << >>
    /\ row_state = << >>
    /\ nu = << >>
    /\ alive = << >>
    /\ fb_Z = << >>
    /\ it = << >>
    /\ fb_i = 0

\* The locals of julia_audio_frames_2d before its first line has run.
Fresh ==
    /\ exc = "none"
    /\ i = NoFrame
    /\ a = 0
    /\ b = 0
    /\ current_width = width
    /\ current_height = height
    /\ prev_real = None
    /\ prev_imag = None
    /\ c_real = 0
    /\ c_imag = 0
    /\ c_real_s = 0
    /\ c_imag_s = 0
    /\ rgb_frame = None
    /\ rotation_angle = 0
    /\ Z0 = NoPlane
    /\ max_width = 0
    /\ max_height = 0
    /\ writer = "unopened"
    /\ close_count = 0
    /\ appended = << >>
    /\ kernel_calls = << >>
    /\ calls = << >>
    /\ message_queue = << >>
    /\ cancel_requested = FALSE
    /\ cancel_frame = NoFrame
    /\ fs_video = "absent"
    /\ fs_temp = "absent"
    /\ mux_failed = FALSE

\* julia_audio_frames_2d has been called and has not run a line yet.
AtEntry ==
    /\ pc = "start"
    /\ Fresh
    /\ GuiIdle
    /\ KernelIdle
    /\ LibIdle

Init ==
    /\ rms \in SeqsUpTo(Levels, MaxFrames)
    /\ cent \in SeqsUpTo(Levels, MaxFrames)
    /\ \E cfg \in Configs :
          /\ preset = JULIA_PRESETS[cfg.preset]
          /\ c_base_offset_real = cfg.c_base_offset_real
          /\ c_base_offset_imag = cfg.c_base_offset_imag
    /\ progress_callback \in {"None", "gui", "other"}
    /\ audio_given \in BOOLEAN
    /\ dynamic_dimensions \in BOOLEAN
    /\ dimension_factor = <<DimFactorNum, DimFactorDen>>
    /\ rotation_enabled = FALSE
    /\ z_offset_real = 0
    /\ z_offset_imag = 0
    /\ platform \in {"posix", "windows"}
    /\ AtEntry

\* ------------------------------------------------ continuity controller
\* c_real / c_imag of lines 788-789: base + offset + amp * (feature - 0.5).
MapTarget(base, offset, amp, feature) ==
    base + offset + TruncDiv(amp * (feature - FeatureHalf), FeatureOne)

\* Variant: no inertia, the constant jumps to the target.
InertiaJump(prev, target) == target

\* Lines 795-796: prev + alpha_c * (c - prev).
Inertia(prev, target) == prev + TruncDiv(alpha_c * (target - prev), 100)

\* Variant: the first frame lags too, from a previous constant of zero.
SmoothFromZero(prev, target) ==
    Inertia(IF prev = None THEN 0 ELSE Val(prev), target)

\* Lines 792-796: the first frame takes the target, later frames lag.
Smooth(prev, target) ==
    IF prev = None THEN target ELSE Inertia(Val(prev), target)

\* Variant: no micro drift on the real part.
WithDriftRealOff(c, idx) == c

\* Lines 799-801: the micro drift added to the smoothed constant.
WithDriftReal(c, idx) == c + DriftSin(idx)

WithDriftImag(c, idx) == c + DriftCos(idx)

\* Variant: prev is stored before the micro drift is added.
StorePrevBeforeDrift(smoothed, drifted) == Some(smoothed)

\* Line 803: the value stored as the new prev_real / prev_imag.
StorePrev(smoothed, drifted) == Some(drifted)

\* ------------------------------------------------------ progress callback
\* Variant: the zero-based index is reported instead of the frame count.
CallbackArgsZeroBased(idx, total_frames) == <<idx, total_frames>>

\* Line 845: progress_callback(i + 1, total_frames), total_frames = len(rms).
CallbackArgs(idx, total_frames) == <<idx + 1, total_frames>>

\* gui.py 1487-1490: the two messages the GUI callback enqueues.
GuiMessages(current, total) ==
    << <<"progress", (current * 100) \div total>>,
       <<"status", <<current, total>> >> >>

\* ------------------------------------------------------------ the encoder
\* Variant: the frame is handed to the encoder twice.
AppendDataTwice(frames, frame) == Append(Append(frames, frame), frame)

\* writer.append_data(rgb_frame): the encoder receives frames in call order.
AppendData(frames, frame) == Append(frames, frame)

\* os.rename(src, dst) succeeds unless dst exists on Windows
\* (FileExistsError); on POSIX an existing dst is replaced.
RenameSucceeds(dst) == ~(platform = "windows" /\ dst # "absent")

\* Number of iterations of "for i, (a, b) in enumerate(zip(rms, cent))".
NumFrames == Min(Len(rms), Len(cent))

InFrame == pc \in {"grid", "continuity", "kernel", "resize", "append", "callback"}

\* An exception raised inside the try block of lines 755-846: control goes
\* to the finally clause with the exception pending.
Raise(where) ==
    /\ exc' = where
    /\ pc' = "finally"

\* --------------------------------------------------------------- actions
\* Lines 705-753: set-up; the writer is opened unless imageio is missing or
\* get_writer fails, both of which raise RuntimeError before the try block.
Start ==
    /\ pc = "start"
    /\ \E ok \in BOOLEAN :
          IF ok
          THEN /\ writer' = "open"
               /\ pc' = "loop"
               /\ exc' = exc
          ELSE /\ writer' = writer
               /\ pc' = "raised"
               /\ exc' = "open"
    /\ Z0' = IF dynamic_dimensions THEN NoPlane ELSE MakePlane(width, height)
    /\ max_width' = BufferSize(width, Len(rms))
    /\ max_height' = BufferSize(height, Len(rms))
    /\ rotation_angle' = 0
    /\ UNCHANGED <<lib, gui, kern, inputs, locals, close_count, appended, history, cancel, files>>

\* Variant: the loop falls through to the audio mux without passing the
\* finally clause, so the writer is still open when the mux starts.
LoopHeadSkipsClose ==
    /\ pc = "loop"
    /\ IF i + 1 < NumFrames
       THEN /\ i' = i + 1
            /\ a' = rms[i + 2]
            /\ b' = cent[i + 2]
            /\ pc' = "grid"
       ELSE /\ pc' = "mux"
            /\ UNCHANGED <<i, a, b>>
    /\ UNCHANGED <<lib, gui, kern, inputs, plane, exc, current_width, current_height, prev_real,
                   prev_imag, c_real, c_imag, c_real_s, c_imag_s, rgb_frame,
                   encoder, history, cancel, files>>

\* Line 756: the loop head takes the next (a, b) pair or leaves the loop.
LoopHead ==
    /\ pc = "loop"
    /\ IF i + 1 < NumFrames
       THEN /\ i' = i + 1
            /\ a' = rms[i + 2]
            /\ b' = cent[i + 2]
            /\ pc' = "grid"
       ELSE /\ pc' = "finally"
            /\ UNCHANGED <<i, a, b>>
    /\ UNCHANGED <<lib, gui, kern, inputs, plane, exc, current_width, current_height, prev_real,
                   prev_imag, c_real, c_imag, c_real_s, c_imag_s, rgb_frame,
                   encoder, history, cancel, files>>

\* Line 766: rotation_angle += rotation_velocity.
NextAngle == IF rotation_enabled THEN rotation_angle + 1 ELSE rotation_angle

\* Lines 762-785: the plane handed to the kernel for a frame of size w x h.
\* Without dynamic_dimensions the plane left by the previous frame is the
\* starting point (line 776 copies Z0, lines 781 and 785 rebind Z0).
FramePlane(w, h) ==
    LET fresh == IF dynamic_dimensions THEN MakePlane(w, h) ELSE Z0
        rotated == IF rotation_enabled
                   THEN RotateAboutCentre(fresh, NextAngle)
                   ELSE fresh
    IN IF z_offset_real # 0 \/ z_offset_imag # 0
       THEN AddOffset(rotated, z_offset_real, z_offset_imag)
       ELSE rotated

\* Lines 757-785: frame size and complex plane of the frame.
Grid ==
    /\ pc = "grid"
    /\ \E ok \in BOOLEAN :
          IF ok
          THEN /\ current_width' =
                     IF dynamic_dimensions THEN GrownSize(width, i) ELSE current_width
               /\ current_height' =
                     IF dynamic_dimensions THEN GrownSize(height, i) ELSE current_height
               /\ rotation_angle' = NextAngle
               /\ Z0' = FramePlane(current_width', current_height')
               /\ pc' = "continuity"
               /\ exc' = exc
          ELSE /\ Raise("grid")
               /\ UNCHANGED <<current_width, current_height, rotation_angle, Z0>>
    /\ UNCHANGED <<lib, gui, kern, inputs, max_width, max_height, i, a, b, prev_real, prev_imag, c_real, c_imag,
                   c_real_s, c_imag_s, rgb_frame, encoder, history, cancel, files>>

\* Lines 787-803: target constant, inertia, micro drift, new prev.
Continuity ==
    /\ pc = "continuity"
    /\ LET cr  == MapTarget(preset.base_c_real, c_base_offset_real, preset.amp_real, a)
           ci  == MapTarget(preset.base_c_imag, c_base_offset_imag, preset.amp_imag, b)
           srs == Smooth(prev_real, cr)
           sis == Smooth(prev_imag, ci)
           crs == WithDriftReal(srs, i)
           cis == WithDriftImag(sis, i)
       IN /\ c_real' = cr
          /\ c_imag' = ci
          /\ c_real_s' = crs
          /\ c_imag_s' = cis
          /\ prev_real' = StorePrev(srs, crs)
          /\ prev_imag' = StorePrev(sis, cis)
    /\ pc' = "kernel"
    /\ UNCHANGED <<lib, gui, kern, inputs, plane, exc, i, a, b, current_width, current_height,
                   rgb_frame, encoder, history, cancel, files>>

\* Lines 815-832: the arguments of the julia(...) call of the frame.
KernelArgs ==
    [index |-> i, c_real |-> c_real_s, c_imag |-> c_imag_s,
     width |-> current_width, height |-> current_height,
     Z0 |-> Z0,
     t_buf_width |-> BufferSlice(max_width, current_width),
     t_buf_height |-> BufferSlice(max_height, current_height)]

\* Lines 805-832: the julia(...) call that renders the frame.  julia raises
\* ValueError when Z0.shape differs from (height, width) (lines 499-500) and
\* IndexError when the t_buf it was given has another shape than the
\* iteration field (boolean indexing of lines 561 and 590); it validates
\* nothing else.
Kernel ==
    /\ pc = "kernel"
    /\ kernel_calls' = Append(kernel_calls, KernelArgs)
    /\ IF KernelArgs.Z0.height # KernelArgs.height \/ KernelArgs.Z0.width # KernelArgs.width
       THEN /\ Raise("Z0_shape")
            /\ rgb_frame' = rgb_frame
       ELSE IF KernelArgs.t_buf_height # KernelArgs.height
                  \/ KernelArgs.t_buf_width # KernelArgs.width
       THEN /\ Raise("t_buf_shape")
            /\ rgb_frame' = rgb_frame
       ELSE \E ok \in BOOLEAN :
          IF ok
          THEN /\ rgb_frame' = [index |-> i, c_real |-> c_real_s, c_imag |-> c_imag_s,
                                width |-> current_width, height |-> current_height]
               /\ pc' = "resize"
               /\ exc' = exc
          ELSE /\ Raise("kernel")
               /\ rgb_frame' = rgb_frame
    /\ UNCHANGED <<lib, gui, kern, inputs, plane, i, a, b, current_width, current_height, prev_real,
                   prev_imag, c_real, c_imag, c_real_s, c_imag_s, encoder,
                   calls, message_queue, cancel, files>>

\* Variant: the rendered frame goes to the encoder at its render size.
ResizeNever ==
    /\ pc = "resize"
    /\ pc' = "append"
    /\ UNCHANGED <<exc, rgb_frame>>
    /\ UNCHANGED <<lib, gui, kern, inputs, plane, i, a, b, current_width, current_height, prev_real,
                   prev_imag, c_real, c_imag, c_real_s, c_imag_s, encoder,
                   history, cancel, files>>

\* Lines 834-838: a grown frame is resampled to the configured size.
Resize ==
    /\ pc = "resize"
    /\ IF dynamic_dimensions /\ (current_width # width \/ current_height # height)
       THEN \E ok \in BOOLEAN :
               IF ok
               THEN /\ rgb_frame' = [rgb_frame EXCEPT !.width = width, !.height = height]
                    /\ pc' = "append"
                    /\ exc' = exc
               ELSE /\ Raise("resize")
                    /\ rgb_frame' = rgb_frame
       ELSE /\ pc' = "append"
            /\ UNCHANGED <<exc, rgb_frame>>
    /\ UNCHANGED <<lib, gui, kern, inputs, plane, i, a, b, current_width, current_height, prev_real,
                   prev_imag, c_real, c_imag, c_real_s, c_imag_s, encoder,
                   history, cancel, files>>

\* Variant: a failed append is swallowed and the loop goes on.
AppendFrameSwallowsFailure ==
    /\ pc = "append"
    /\ \E ok \in BOOLEAN :
          IF ok
          THEN /\ appended' = AppendData(appended, rgb_frame)
               /\ fs_video' = "silent"
               /\ exc' = exc
          ELSE /\ exc' = "append"
               /\ UNCHANGED <<appended, fs_video>>
    /\ pc' = "callback"
    /\ UNCHANGED <<lib, gui, kern, inputs, plane, locals, writer, close_count, history, cancel,
                   fs_temp, mux_failed>>

\* Line 841: writer.append_data(rgb_frame); the encoder may refuse the frame.
AppendFrame ==
    /\ pc = "append"
    /\ \E ok \in BOOLEAN :
          IF ok
          THEN /\ appended' = AppendData(appended, rgb_frame)
               /\ fs_video' = "silent"
               /\ pc' = "callback"
               /\ exc' = exc
          ELSE /\ Raise("append")
               /\ UNCHANGED <<appended, fs_video>>
    /\ UNCHANGED <<lib, gui, kern, inputs, plane, locals, writer, close_count, history, cancel,
                   fs_temp, mux_failed>>

\* Lines 843-845: the progress callback, when one was given.  The GUI's
\* callback enqueues two messages; any other callable may return or raise.
Callback ==
    /\ pc = "callback"
    /\ IF progress_callback = "None"
       THEN /\ pc' = "loop"
            /\ UNCHANGED <<exc, calls, message_queue>>
       ELSE /\ calls' = Append(calls, CallbackArgs(i, Len(rms)))
            /\ IF progress_callback = "gui"
               THEN /\ message_queue' = message_queue \o
                          GuiMessages(CallbackArgs(i, Len(rms))[1],
                                      CallbackArgs(i, Len(rms))[2])
                    /\ pc' = "loop"
                    /\ exc' = exc
               ELSE /\ message_queue' = message_queue
                    /\ \E ok \in BOOLEAN :
                          IF ok
                          THEN /\ pc' = "loop"
                               /\ exc' = exc
                          ELSE Raise("callback")
    /\ UNCHANGED <<lib, gui, kern, inputs, plane, locals, encoder, kernel_calls, cancel, files>>

\* Variant: the writer is closed after the loop only, not in a finally
\* clause, so a pending exception skips the close.
FinallySkippedOnError ==
    /\ pc = "finally"
    /\ writer' = IF exc = "none" THEN "closed" ELSE writer
    /\ close_count' = IF exc = "none" THEN close_count + 1 ELSE close_count
    /\ pc' = IF exc = "none" THEN "mux" ELSE "raised"
    /\ UNCHANGED <<lib, gui, kern, inputs, plane, exc, locals, appended, history, cancel, files>>

\* Lines 847-849: the finally clause closes the writer (an open imageio
\* writer is a truthy object), then the pending exception (if any)
\* propagates to the caller.
Finally ==
    /\ pc = "finally"
    /\ writer' = "closed"
    /\ close_count' = close_count + 1
    /\ pc' = IF exc = "none" THEN "mux" ELSE "raised"
    /\ UNCHANGED <<lib, gui, kern, inputs, plane, exc, locals, appended, history, cancel, files>>

\* The user asks for the running render to stop.  start_generation
\* (gui.py 1290-1317) hands the worker no flag or event, and the frame loop
\* reads none: the request is recorded here and nothing else changes.
RequestCancel ==
    /\ InFrame
    /\ ~cancel_requested
    /\ cancel_requested' = TRUE
    /\ cancel_frame' = i
    /\ UNCHANGED <<lib, gui, kern, inputs, plane, pc, exc, locals, encoder, history, files>>

\* ------------------------------------------------------------ audio mux
\* Line 852: without a usable audio_path the silent video is returned.
MuxCheck ==
    /\ pc = "mux"
    /\ pc' = IF audio_given THEN "mux_find" ELSE "returned"
    /\ UNCHANGED <<lib, gui, kern, inputs, plane, exc, locals, encoder, history, cancel, files>>

\* Lines 857-872: locate ffmpeg; not found means "video without audio".
MuxFindFfmpeg ==
    /\ pc = "mux_find"
    /\ \E found \in BOOLEAN :
          IF found
          THEN /\ pc' = "mux_rename"
               /\ mux_failed' = mux_failed
          ELSE /\ pc' = "returned"
               /\ mux_failed' = TRUE
    /\ UNCHANGED <<lib, gui, kern, inputs, plane, exc, locals, encoder, history, cancel, fs_video, fs_temp>>

\* Lines 875-880: move the silent video aside to the _temp.mp4 name.  With
\* no frame appended the encoder wrote no file and the path is returned.
MuxRename ==
    /\ pc = "mux_rename"
    /\ IF fs_video # "absent"
       THEN \E ok \in BOOLEAN :
               IF ok /\ RenameSucceeds(fs_temp)
               THEN /\ fs_temp' = fs_video
                    /\ fs_video' = "absent"
                    /\ pc' = "mux_run"
                    /\ mux_failed' = mux_failed
               ELSE /\ pc' = "mux_except"
                    /\ mux_failed' = TRUE
                    /\ UNCHANGED <<fs_video, fs_temp>>
       ELSE /\ pc' = "returned"
            /\ UNCHANGED <<fs_video, fs_temp, mux_failed>>
    /\ UNCHANGED <<lib, gui, kern, inputs, plane, exc, locals, encoder, history, cancel>>

\* Line 895: subprocess.run(ffmpeg_cmd, timeout=300).  ffmpeg exits with 0
\* after writing video_path, exits non-zero with or without a partial
\* video_path, is killed on timeout while writing, or cannot be started.
MuxRunFfmpeg ==
    /\ pc = "mux_run"
    /\ \E outcome \in {"ok", "failed_early", "failed_late", "timeout", "oserror"} :
          /\ fs_video' = CASE outcome = "ok" -> "with_audio"
                           [] outcome \in {"failed_late", "timeout"} -> "partial"
                           [] OTHER -> fs_video
          /\ pc' = CASE outcome = "ok" -> "mux_ok"
                     [] outcome \in {"failed_early", "failed_late"} -> "mux_restore"
                     [] outcome = "timeout" -> "mux_timeout"
                     [] OTHER -> "mux_except"
          /\ mux_failed' = (outcome # "ok")
    /\ UNCHANGED <<lib, gui, kern, inputs, plane, exc, locals, encoder, history, cancel, fs_temp>>

\* Lines 897-900: returncode 0, the temporary silent video is removed.
MuxSuccess ==
    /\ pc = "mux_ok"
    /\ fs_temp' = "absent"
    /\ pc' = "returned"
    /\ UNCHANGED <<lib, gui, kern, inputs, plane, exc, locals, encoder, history, cancel, fs_video, mux_failed>>

\* Lines 901-905: non-zero returncode, the silent video is renamed back.  A
\* failing rename is caught by "except Exception" of line 911.
MuxRestore ==
    /\ pc = "mux_restore"
    /\ IF RenameSucceeds(fs_video)
       THEN /\ fs_video' = fs_temp
            /\ fs_temp' = "absent"
            /\ pc' = "returned"
       ELSE /\ pc' = "mux_except"
            /\ UNCHANGED <<fs_video, fs_temp>>
    /\ UNCHANGED <<lib, gui, kern, inputs, plane, exc, locals, encoder, history, cancel, mux_failed>>

\* The restore of both exception handlers (lines 908-910 and 913-915): rename
\* _temp.mp4 back if it exists.  A rename that fails here is raised inside
\* the handler and leaves julia_audio_frames_2d as an exception.
HandlerRestore ==
    IF fs_temp = "absent"
    THEN /\ pc' = "returned"
         /\ UNCHANGED <<exc, fs_video, fs_temp>>
    ELSE IF RenameSucceeds(fs_video)
         THEN /\ fs_video' = fs_temp
              /\ fs_temp' = "absent"
              /\ pc' = "returned"
              /\ exc' = exc
         ELSE /\ pc' = "raised"
              /\ exc' = "mux"
              /\ UNCHANGED <<fs_video, fs_temp>>

\* Lines 906-910: except subprocess.TimeoutExpired.
MuxTimeoutHandler ==
    /\ pc = "mux_timeout"
    /\ HandlerRestore
    /\ UNCHANGED <<lib, gui, kern, inputs, plane, locals, encoder, history, cancel, mux_failed>>

\* Lines 911-916: except Exception.
MuxExceptHandler ==
    /\ pc = "mux_except"
    /\ HandlerRestore
    /\ UNCHANGED <<lib, gui, kern, inputs, plane, locals, encoder, history, cancel, mux_failed>>

\* The call has ended: video_path was returned, or an exception left it.
Ended == pc \in {"returned", "raised"}

Next ==
    \/ Start
    \/ LoopHead
    \/ Grid
    \/ Continuity
    \/ Kernel
    \/ Resize
    \/ AppendFrame
    \/ Callback
    \/ Finally
    \/ MuxCheck
    \/ MuxFindFfmpeg
    \/ MuxRename
    \/ MuxRunFfmpeg
    \/ MuxSuccess
    \/ MuxRestore
    \/ MuxTimeoutHandler
    \/ MuxExceptHandler

Spec == Init /\ [][Next]_vars

\* Renders over the view options: dynamic dimensions growing or shrinking,
\* rotation, z offset, and a preset whose gamma may be non-finite.
InitView ==
    /\ rms \in SeqsUpTo(Levels, MaxFrames)
    /\ cent = [k \in DOMAIN rms |-> FeatureOne - rms[k]]
    /\ \E g \in {Finite(95), NonFinite} :
          preset = [JULIA_PRESETS["calm"] EXCEPT !.gamma = g]
    /\ c_base_offset_real = 0
    /\ c_base_offset_imag = 0
    /\ progress_callback = "None"
    /\ audio_given \in BOOLEAN
    /\ dynamic_dimensions \in BOOLEAN
    /\ dimension_factor \in {<<DimFactorNum, DimFactorDen>>,
                              <<DimFactorDen, DimFactorNum>>}
    /\ rotation_enabled \in BOOLEAN
    /\ \E off \in {0, 50000} :
          /\ z_offset_real = off
          /\ z_offset_imag = -2 * off
    /\ platform = "posix"
    /\ AtEntry

SpecView == InitView /\ [][Next]_vars

\* The calm preset driven by a constant stream energy = brightness = 0.5.
InitCalm ==
    /\ rms = [k \in 1..CalmFrames |-> FeatureHalf]
    /\ cent = [k \in 1..CalmFrames |-> FeatureHalf]
    /\ preset = JULIA_PRESETS["calm"]
    /\ c_base_offset_real = 0
    /\ c_base_offset_imag = 0
    /\ progress_callback \in {"None", "gui"}
    /\ audio_given \in BOOLEAN
    /\ dynamic_dimensions \in BOOLEAN
    /\ dimension_factor = <<DimFactorNum, DimFactorDen>>
    /\ rotation_enabled = FALSE
    /\ z_offset_real = 0
    /\ z_offset_imag = 0
    /\ platform = "posix"
    /\ AtEntry

SpecCalm == InitCalm /\ [][Next]_vars

\* The same render with a user who may ask for it to stop.
\* ------------------------------------------------ the callers of a render
\* Variant: the worker's preset names the table's own dict.
DictAlias(h, ref) == [heap |-> h, ref |-> ref]

\* gui.py line 1427, dict.copy(): a new dict with the same keys and values;
\* the values of a preset are numbers, strings and one tuple, all immutable.
DictCopy(h, ref) == [heap |-> Append(h, h[ref]), ref |-> Len(h) + 1]

\* The worker returns: its local dict is dropped unless the table holds it.
Free(h, ref) ==
    IF ref > Len(PresetNames) /\ ref = Len(h) THEN SubSeq(h, 1, ref - 1) ELSE h

\* gui.py lines 1456-1461: video_quality of a quality preset.
QualitySettings == [low |-> 5, medium |-> 6, high |-> 8, ultra |-> 10]

\* Values of self.settings a render is started with (intensity in percent).
SettingsChoices ==
    [palette_choice : {"auto", "ethereal"}, auto_preset : {"calm", "energetic"},
     use_custom_palette : BOOLEAN, intensity : {100, 150},
     quality : {"low", "high"}, max_iterations : {200}]

\* Every local of julia_audio_frames_2d is set as at entry, control at p.
Enter(p) ==
    /\ pc' = p
    /\ exc' = "none"
    /\ i' = NoFrame
    /\ a' = 0
    /\ b' = 0
    /\ current_width' = width
    /\ current_height' = height
    /\ prev_real' = None
    /\ prev_imag' = None
    /\ c_real' = 0
    /\ c_imag' = 0
    /\ c_real_s' = 0
    /\ c_imag_s' = 0
    /\ rgb_frame' = None
    /\ rotation_angle' = 0
    /\ Z0' = NoPlane
    /\ max_width' = 0
    /\ max_height' = 0
    /\ writer' = "unopened"
    /\ close_count' = 0
    /\ appended' = << >>
    /\ kernel_calls' = << >>
    /\ calls' = << >>
    /\ cancel_requested' = FALSE
    /\ cancel_frame' = NoFrame
    /\ fs_video' = "absent"
    /\ fs_temp' = "absent"
    /\ mux_failed' = FALSE

\* gui.py lines 1321-1427: the worker reads the settings, picks the preset
\* name (choose_preset_name or the palette choice, 'ethereal' when the table
\* has no such name) and copies the table's dict.
WorkerCopy ==
    /\ caller = "none"
    /\ pc = "idle"
    /\ renders < MaxRenders
    /\ \E st \in SettingsChoices :
          LET preset_name == IF st.palette_choice = "auto"
                             THEN st.auto_preset ELSE st.palette_choice
              src == IF \E r \in DOMAIN PresetNames : PresetNames[r] = preset_name
                     THEN TableRef(preset_name) ELSE TableRef("ethereal")
              cp == DictCopy(heap, src)
          IN /\ settings' = st
             /\ heap' = cp.heap
             /\ preset_ref' = cp.ref
    /\ caller' = "gui"
    /\ worker_pc' = "palette"
    /\ message_queue' = message_queue \o << <<"status", "extract">>,
                                            <<"status", "profile">> >>
    /\ UNCHANGED <<lib, kern, inputs, pc, exc, locals, plane, encoder, kernel_calls, calls,
                   cancel, files, renders, entry_preset>>

\* gui.py lines 1434-1447: the palette keys of the worker's preset.
WorkerPalette ==
    /\ worker_pc = "palette"
    /\ heap' = [heap EXCEPT ![preset_ref] =
          IF settings.use_custom_palette
          THEN [@ EXCEPT !.palette = "custom",
                         !.custom_main_color = Some("main"),
                         !.custom_accent_color = Some("accent")]
          ELSE IF settings.palette_choice # "auto" /\ settings.palette_choice \in PALETTES
          THEN [@ EXCEPT !.palette = settings.palette_choice,
                         !.custom_main_color = None,
                         !.custom_accent_color = None]
          ELSE @]
    /\ worker_pc' = "intensity"
    /\ UNCHANGED <<lib, kern, inputs, pc, exc, locals, plane, encoder, history, cancel, files,
                   preset_ref, caller, settings, renders, entry_preset>>

\* gui.py lines 1449-1452: preset['amp_real'] *= intensity, and amp_imag.
WorkerIntensity ==
    /\ worker_pc = "intensity"
    /\ heap' = [heap EXCEPT ![preset_ref] =
          [@ EXCEPT !.amp_real = (@ * settings.intensity) \div 100,
                    !.amp_imag = (@ * settings.intensity) \div 100]]
    /\ worker_pc' = "quality"
    /\ UNCHANGED <<lib, kern, inputs, pc, exc, locals, plane, encoder, history, cancel, files,
                   preset_ref, caller, settings, renders, entry_preset>>

\* gui.py lines 1454-1472: video_quality and max_iter of the worker's preset.
WorkerQuality ==
    /\ worker_pc = "quality"
    /\ heap' = [heap EXCEPT ![preset_ref] =
          [@ EXCEPT !.video_quality = Some(QualitySettings[settings.quality]),
                    !.max_iter = settings.max_iterations]]
    /\ message_queue' = message_queue \o << <<"preset", "name">>,
                                            <<"status", "generating">> >>
    /\ worker_pc' = "call"
    /\ UNCHANGED <<lib, kern, inputs, pc, exc, locals, plane, encoder, kernel_calls, calls,
                   cancel, files, preset_ref, caller, settings, renders, entry_preset>>

\* gui.py lines 1494-1515: the call passes waveform= and video_filename=,
\* which julia_audio_frames_2d (fractals.py 681-700) does not take: the call
\* raises TypeError before a line of the function has run.
WorkerCall ==
    /\ worker_pc = "call"
    /\ entry_preset' = heap[preset_ref]
    /\ renders' = renders + 1
    /\ worker_pc' = "except"
    /\ UNCHANGED <<lib, kern, inputs, pc, exc, locals, plane, encoder, history, cancel, files,
                   heap, preset_ref, caller, settings>>

\* gui.py lines 1571-1573: the except clause reports and the worker returns.
WorkerExit ==
    /\ worker_pc = "except"
    /\ message_queue' = message_queue \o << <<"error", "TypeError">>,
                                            <<"done", "None">> >>
    /\ heap' = Free(heap, preset_ref)
    /\ preset_ref' = 0
    /\ caller' = "none"
    /\ worker_pc' = "idle"
    /\ settings' = NoSettings
    /\ UNCHANGED <<lib, kern, inputs, pc, exc, locals, plane, encoder, kernel_calls, calls,
                   cancel, files, renders, entry_preset>>

\* main.py lines 11-32: preset = JULIA_PRESETS[preset_name] names the
\* table's own dict, which is passed to julia_audio_frames_2d with the
\* defaults for everything but rms, cent and the size.
MainCall ==
    /\ caller = "none"
    /\ pc = "idle"
    /\ renders < MaxRenders
    /\ \E preset_name \in {"calm", "energetic"}, r \in SeqsUpTo(Levels, MaxFrames) :
          /\ preset_ref' = TableRef(preset_name)
          /\ entry_preset' = heap[TableRef(preset_name)]
          /\ preset' = heap[TableRef(preset_name)]
          /\ rms' = r
          /\ cent' = [k \in DOMAIN r |-> FeatureOne - r[k]]
    /\ caller' = "main"
    /\ renders' = renders + 1
    /\ Enter("start")
    /\ UNCHANGED <<lib, kern, c_base_offset_real, c_base_offset_imag, progress_callback,
                   audio_given, dynamic_dimensions, dimension_factor,
                   rotation_enabled, z_offset_real, z_offset_imag, platform,
                   message_queue, heap, worker_pc, settings>>

\* main.py line 32: julia_audio_frames_2d has returned or raised.
MainReturn ==
    /\ caller = "main"
    /\ pc \in {"returned", "raised"}
    /\ caller' = "none"
    /\ preset_ref' = 0
    /\ Enter("idle")
    /\ UNCHANGED <<lib, kern, inputs, message_queue, heap, worker_pc, settings, renders,
                   entry_preset>>

NextWorker ==
    \/ WorkerCopy
    \/ WorkerPalette
    \/ WorkerIntensity
    \/ WorkerQuality
    \/ WorkerCall
    \/ WorkerExit
    \/ MainCall
    \/ MainReturn
    \/ Start
    \/ LoopHead
    \/ Grid
    \/ Continuity
    \/ Kernel
    \/ Resize
    \/ AppendFrame
    \/ Callback
    \/ Finally
    \/ MuxCheck

\* No call of julia_audio_frames_2d is in progress.
NoRender ==
    /\ rms = << >>
    /\ cent = << >>
    /\ preset = JULIA_PRESETS["calm"]
    /\ c_base_offset_real = 0
    /\ c_base_offset_imag = 0
    /\ progress_callback = "None"
    /\ audio_given = FALSE
    /\ dynamic_dimensions = FALSE
    /\ dimension_factor = <<DimFactorNum, DimFactorDen>>
    /\ rotation_enabled = FALSE
    /\ z_offset_real = 0
    /\ z_offset_imag = 0
    /\ platform = "posix"
    /\ pc = "idle"
    /\ Fresh

\* fractals.py has been imported and no render has been started.
InitWorker ==
    /\ NoRender
    /\ GuiIdle
    /\ KernelIdle
    /\ LibIdle

SpecWorker == InitWorker /\ [][NextWorker]_vars

\* ------------------------------------------------ the escape-time kernel
\* 1.0 of the kernel's fixed point: grid points and c are in thousandths.
KOne == 10 * 100

\* The escape test "mag2 > 4.0" in squared thousandths.
EscapeMag2 == 4 * KOne * KOne

\* max_iter of the origin scenario.
OriginMaxIter == 5 * 10

Mag2(z) == z[1] * z[1] + z[2] * z[2]

\* Lines 427-441 and 523 with power = 2: z * z + c.  The polar form of the
\* kernel is the same product; its guard "mag2 < 1e-12: z = c" is the
\* value of z * z + c at z = 0, the only such point of the fixed point.
JuliaStep(z, c) ==
    IF Mag2(z) = 0
    THEN c
    ELSE << TruncDiv(z[1] * z[1] - z[2] * z[2], KOne) + c[1],
            TruncDiv(2 * z[1] * z[2], KOne) + c[2] >>

\* nu of a pixel that never escaped: the 0.0 of np.zeros.
NuZero == [k |-> 0, mag2 |-> 0]

\* Variant: the escape is counted from one.
NuAtNext(k, mag2) == [k |-> k + 1, mag2 |-> mag2]

\* Lines 447-450 and 545: nu = k + 1 - log(0.5 * log(mag2)) / log(2), held
\* as the escape iteration k and the escape magnitude it is computed from.
NuAt(k, mag2) == [k |-> k, mag2 |-> mag2]

\* h, w = Z0_real.shape
ShapeH == Cardinality({cell[1] : cell \in DOMAIN Z0_real})

ShapeW == Cardinality({cell[2] : cell \in DOMAIN Z0_real})

\* A prange worker that holds no row.
IdleThread == [busy |-> FALSE, y |-> 0, x |-> 0, k |-> 0, zr |-> 0, zi |-> 0]

\* Lines 416-420: the loop locals at the start of pixel (y, x).
LoadPixel(y, x) ==
    [busy |-> TRUE, y |-> y, x |-> x, k |-> 0,
     zr |-> Z0_real[<<y, x>>], zi |-> Z0_imag[<<y, x>>]]

\* Line 416, the next x of the row, or the end of the prange body.
AfterPixel(y, x) == IF x + 1 < ShapeW THEN LoadPixel(y, x + 1) ELSE IdleThread

\* Variant: the result of a pixel is stored in the first row.
CellWrittenFirstRow(y, x) == <<0, x>>

\* Lines 450-453: the cell of nu and alive that pixel (y, x) stores to.
CellWritten(y, x) == <<y, x>>

\* The kernel does not touch the state of the render or of its callers.
RenderUntouched ==
    UNCHANGED <<lib, gui, inputs, pc, exc, locals, plane, encoder, history, cancel, files>>

\* Line 415: a worker takes a row of the prange that no worker has taken.
ClaimRow(t, y) ==
    /\ kpc = "numba"
    /\ ~thread[t].busy
    /\ row_state[y] = "todo"
    /\ row_state' = [row_state EXCEPT ![y] = "taken"]
    /\ thread' = [thread EXCEPT ![t] = LoadPixel(y, 0)]
    /\ UNCHANGED <<kpc, NUMBA_AVAILABLE, Z0_real, Z0_imag, kcr, kci, max_iter,
                   nu, alive, fb_Z, it, fb_i>>
    /\ RenderUntouched

\* Lines 423-454: one pass of "for k in range(max_iter)" for the pixel the
\* worker is at.
Iterate(t) ==
    /\ kpc = "numba"
    /\ thread[t].busy
    /\ LET y == thread[t].y
           x == thread[t].x
           k == thread[t].k
           z == JuliaStep(<<thread[t].zr, thread[t].zi>>, <<kcr, kci>>)
           last == x + 1 >= ShapeW
       IN IF Mag2(z) > EscapeMag2
          THEN /\ nu' = [nu EXCEPT ![CellWritten(y, x)] = NuAt(k, Mag2(z))]
               /\ alive' = [alive EXCEPT ![CellWritten(y, x)] = 0]
               /\ thread' = [thread EXCEPT ![t] = AfterPixel(y, x)]
               /\ row_state' = IF last THEN [row_state EXCEPT ![y] = "done"]
                               ELSE row_state
          ELSE IF k + 1 < max_iter
          THEN /\ thread' = [thread EXCEPT ![t] = [@ EXCEPT !.k = k + 1,
                                                            !.zr = z[1], !.zi = z[2]]]
               /\ UNCHANGED <<nu, alive, row_state>>
          ELSE /\ thread' = [thread EXCEPT ![t] = AfterPixel(y, x)]
               /\ row_state' = IF last THEN [row_state EXCEPT ![y] = "done"]
                               ELSE row_state
               /\ UNCHANGED <<nu, alive>>
    /\ UNCHANGED <<kpc, NUMBA_AVAILABLE, Z0_real, Z0_imag, kcr, kci, max_iter,
                   fb_Z, it, fb_i>>
    /\ RenderUntouched

\* Line 456: every row of the prange is finished, the kernel returns.
KernelReturn ==
    /\ kpc = "numba"
    /\ \A y \in DOMAIN row_state : row_state[y] = "done"
    /\ kpc' = "done"
    /\ UNCHANGED <<NUMBA_AVAILABLE, Z0_real, Z0_imag, kcr, kci, max_iter, thread,
                   row_state, nu, alive, fb_Z, it, fb_i>>
    /\ RenderUntouched

\* Lines 519-539: one pass of the NumPy loop over the whole array.
FallbackIterate ==
    /\ kpc = "fallback"
    /\ fb_i < max_iter
    /\ \E cell \in DOMAIN alive : alive[cell] = 1
    /\ LET stepped == [cell \in DOMAIN fb_Z |->
                          IF alive[cell] = 1
                          THEN JuliaStep(fb_Z[cell], <<kcr, kci>>) ELSE fb_Z[cell]]
           escaped == [cell \in DOMAIN fb_Z |->
                          alive[cell] = 1 /\ Mag2(stepped[cell]) > EscapeMag2]
       IN /\ fb_Z' = stepped
          /\ it' = [cell \in DOMAIN it |-> IF escaped[cell] THEN fb_i ELSE it[cell]]
          /\ alive' = [cell \in DOMAIN alive |->
                          IF escaped[cell] THEN 0 ELSE alive[cell]]
    /\ fb_i' = fb_i + 1
    /\ UNCHANGED <<kpc, NUMBA_AVAILABLE, Z0_real, Z0_imag, kcr, kci, max_iter,
                   thread, row_state, nu>>
    /\ RenderUntouched

\* Lines 538-545: the loop has ended; nu of every escaped pixel.
FallbackFinish ==
    /\ kpc = "fallback"
    /\ fb_i >= max_iter \/ \A cell \in DOMAIN alive : alive[cell] = 0
    /\ nu' = [cell \in DOMAIN nu |->
                 IF alive[cell] = 0 THEN NuAt(it[cell], Mag2(fb_Z[cell])) ELSE NuZero]
    /\ kpc' = "done"
    /\ UNCHANGED <<NUMBA_AVAILABLE, Z0_real, Z0_imag, kcr, kci, max_iter, thread,
                   row_state, alive, fb_Z, it, fb_i>>
    /\ RenderUntouched

\* Any idle worker may take any row that is left: every partition of the
\* rows over the workers is a behaviour.
Schedule == \E t \in DOMAIN thread, y \in DOMAIN row_state : ClaimRow(t, y)

\* Any busy worker may run next: every interleaving is a behaviour.
Run == \E t \in DOMAIN thread : Iterate(t)

NextKernel ==
    \/ Schedule
    \/ Run
    \/ KernelReturn
    \/ FallbackIterate
    \/ FallbackFinish

\* Views (x_min, x_max, y_min, y_max) and constants of the kernel runs.
KernelViews == { <<0, 1200, 0, 900>>, <<-1500, 1500, -1000, 1000>> }

KernelConstants == { <<0, 0>>, <<-620, 430>> }

\* The kernel has been entered with the grid g (cell -> <<re, im>>).
KernelEntered(g, n) ==
    /\ NUMBA_AVAILABLE \in BOOLEAN
    /\ kpc = IF NUMBA_AVAILABLE THEN "numba" ELSE "fallback"
    /\ Z0_real = [cell \in DOMAIN g |-> g[cell][1]]
    /\ Z0_imag = [cell \in DOMAIN g |-> g[cell][2]]
    /\ max_iter = n
    /\ thread = [t \in 1..KernelWorkers |-> IdleThread]
    /\ row_state = [y \in {cell[1] : cell \in DOMAIN g} |-> "todo"]
    /\ nu = [cell \in DOMAIN g |-> NuZero]
    /\ alive = [cell \in DOMAIN g |-> 1]
    /\ fb_Z = g
    /\ it = [cell \in DOMAIN g |-> 0]
    /\ fb_i = 0

InitKernel ==
    /\ NoRender
    /\ GuiIdle
    /\ LibIdle
    /\ \E view \in KernelViews, c \in KernelConstants :
          /\ kcr = c[1]
          /\ kci = c[2]
          /\ KernelEntered(
                [cell \in (0..(KernelH - 1)) \X (0..(KernelW - 1)) |->
                    << Linspace(view[1], view[2], KernelW, cell[2]),
                       Linspace(view[3], view[4], KernelH, cell[1]) >>],
                KernelMaxIter)

SpecKernel == InitKernel /\ [][NextKernel]_vars

\* c = (0, 0), max_iter = 50, one pixel at the origin and one at (3, 0).
InitOrigin ==
    /\ NoRender
    /\ GuiIdle
    /\ LibIdle
    /\ kcr = 0
    /\ kci = 0
    /\ KernelEntered([cell \in {<<0, 0>>, <<1, 0>>} |->
                         IF cell[1] = 0 THEN <<0, 0>> ELSE <<3 * KOne, 0>>],
                     OriginMaxIter)

SpecOrigin == InitOrigin /\ [][NextKernel]_vars

\* ------------------------------------------------- julia: the colouring
\* Lines 342-350, the entries of the palettes that the model uses.
INTERIOR_COLORS ==
    [fire |-> <<0, 0, 0>>, ocean |-> <<205, 226, 235>>, ethereal |-> <<20, 11, 66>>]

\* Lines 352-355: a colour "#rrggbb" is held as its six hex digits.
_hex_to_rgb(hex_color) ==
    << 16 * hex_color[1] + hex_color[2],
       16 * hex_color[3] + hex_color[4],
       16 * hex_color[5] + hex_color[6] >>

\* np.clip(v, lo, hi)
ClipTo(v, lo, hi) == IF v < lo THEN lo ELSE IF v > hi THEN hi ELSE v

\* np.percentile(x, q) with the default linear interpolation: the value at
\* position q * (n - 1) / 100 of the sorted array.
Percentile(x, q) ==
    LET s == SortSeq(x, LAMBDA u, v : u < v)
        pos == q * (Len(s) - 1)
        lo == (pos \div 100) + 1
        frac == pos % 100
    IN IF frac = 0
       THEN s[lo]
       ELSE TruncDiv((100 - frac) * s[lo] + frac * s[lo + 1], 100)

\* nu in thousandths, to the whole escape iteration.
NuValue(n) == n.k * KOne

\* The cells of a field in row-major order.
CellSeq(field) ==
    LET h == Cardinality({cell[1] : cell \in DOMAIN field})
        w == Cardinality({cell[2] : cell \in DOMAIN field})
    IN [k \in 1..(h * w) |-> <<(k - 1) \div w, (k - 1) % w>>]

\* nu[esc] as an array.
NuEscaped ==
    LET cells == SelectSeq(CellSeq(nu), LAMBDA cell : alive[cell] = 0)
    IN [k \in 1..Len(cells) |-> NuValue(nu[cells[k]])]

SeqMin(x) == CHOOSE v \in {x[k] : k \in DOMAIN x} : \A k \in DOMAIN x : v <= x[k]

SeqMax(x) == CHOOSE v \in {x[k] : k \in DOMAIN x} : \A k \in DOMAIN x : v >= x[k]

\* Lines 555-561: the robust contrast stretch of the escaped pixels; a flat
\* range falls back to (min, max + 1e-6), the smallest step of the fixed
\* point.
Stretched(cell) ==
    LET p_lo == Percentile(NuEscaped, 2)
        p_hi == Percentile(NuEscaped, 98)
        flat == p_hi - p_lo < 1
        lo == IF flat THEN SeqMin(NuEscaped) ELSE p_lo
        hi == IF flat THEN SeqMax(NuEscaped) + 1 ELSE p_hi
    IN TruncDiv((NuValue(nu[cell]) - lo) * KOne, hi - lo)

\* Lines 563-567: clip, contrast 1.25 about 0.5, clip, t ** gamma.
Toned(v) ==
    LET clipped == ClipTo(v, 0, KOne)
        contrasted == ClipTo(TruncDiv((clipped - KOne \div 2) * 125, 100) + KOne \div 2,
                             0, KOne)
    IN TruncDiv(Pow(contrasted, gamma), Pow(KOne, gamma - 1))

\* astype(np.uint8) of a value in 0..255
Uint8(v) == v % 256

\* Lines 173-177: _palette_fire.
_palette_fire(tv) ==
    LET tc == ClipTo(tv, 0, KOne)
    IN << Uint8(TruncDiv(255 * ClipTo(3 * tc, 0, KOne), KOne)),
          Uint8(TruncDiv(255 * ClipTo(3 * tc - KOne, 0, KOne), KOne)),
          Uint8(TruncDiv(255 * ClipTo(3 * tc - 2 * KOne, 0, KOne), KOne)) >>

\* np.interp(t, np.linspace(0, 1, len(stops)), stops[:, ch])
Interp(tv, stops, ch) ==
    LET n == Len(stops)
        pos == ClipTo(tv, 0, KOne) * (n - 1)
        k == (pos \div KOne) + 1
        frac == pos % KOne
    IN IF k >= n
       THEN stops[n][ch]
       ELSE TruncDiv(stops[k][ch] * (KOne - frac) + stops[k + 1][ch] * frac, KOne)

\* Lines 186-193: the stops of _palette_ocean.
OceanStops ==
    << <<208, 238, 233>>, <<12, 30, 120>>, <<46, 110, 159>>,
       <<108, 75, 150>>, <<65, 157, 141>>, <<160, 220, 210>> >>

\* Lines 236-244: the stops of _palette_ethereal.
EtherealStops ==
    << <<212, 205, 213>>, <<162, 46, 120>>, <<106, 85, 181>>,
       <<157, 141, 215>>, <<186, 165, 194>> >>

\* Lines 195-202 and 246-254: a palette of interpolated stops.
StopsPalette(tv, stops) ==
    << Uint8(Interp(tv, stops, 1)), Uint8(Interp(tv, stops, 2)),
       Uint8(Interp(tv, stops, 3)) >>

\* Lines 357-382: _create_custom_palette; the stops are held in tenths.
_create_custom_palette(tv, main_color, accent_color) ==
    LET main_rgb == _hex_to_rgb(main_color)
        accent_rgb == _hex_to_rgb(accent_color)
        stops == << [ch \in 1..3 |-> main_rgb[ch]],
                    [ch \in 1..3 |-> main_rgb[ch] * 5],
                    [ch \in 1..3 |-> main_rgb[ch] * 10],
                    [ch \in 1..3 |-> (main_rgb[ch] + accent_rgb[ch]) * 5],
                    [ch \in 1..3 |-> accent_rgb[ch] * 10],
                    [ch \in 1..3 |-> accent_rgb[ch] * 12] >>
    IN [ch \in 1..3 |-> Uint8(ClipTo(TruncDiv(Interp(tv, stops, ch), 10), 0, 255))]

\* Lines 569-580: the ramp colour of a pixel with normalised value tv.
Ramp(tv) ==
    IF palette = "custom" /\ custom_palette # None /\ custom_accent # None
    THEN _create_custom_palette(tv, Val(custom_palette), Val(custom_accent))
    ELSE IF palette = "ocean" THEN StopsPalette(tv, OceanStops)
    ELSE IF palette = "ethereal" THEN StopsPalette(tv, EtherealStops)
    ELSE _palette_fire(tv)

\* Lines 582-589: the interior colour.
Interior ==
    IF palette = "custom"
    THEN LET main_rgb == IF custom_palette # None
                         THEN _hex_to_rgb(Val(custom_palette))
                         ELSE <<0, 0, 0>>
         IN [ch \in 1..3 |-> IF main_rgb[ch] - 30 > 0 THEN main_rgb[ch] - 30 ELSE 0]
    ELSE IF palette \in DOMAIN INTERIOR_COLORS
         THEN INTERIOR_COLORS[palette]
         ELSE <<0, 0, 0>>

\* Variant: the interior colour is stored through the mask of the escaped
\* pixels.
InteriorMaskEscaped(cell) == alive[cell] = 0

\* Line 590: the mask of rgb[alive] = interior.
InteriorMask(cell) == alive[cell] = 1

\* The colouring stage leaves the kernel's fields and the render alone.
KernelUntouched ==
    /\ UNCHANGED <<NUMBA_AVAILABLE, Z0_real, Z0_imag, kcr, kci, max_iter, thread,
                   row_state, nu, alive, fb_Z, it, fb_i>>
    /\ UNCHANGED <<gui, inputs, pc, exc, locals, plane, encoder, history, cancel, files>>
    /\ UNCHANGED <<features, videos, ui>>

\* Lines 547-567: t is zero where alive, the toned stretch where escaped.
Normalize ==
    /\ kpc = "done"
    /\ t_buf' = [cell \in DOMAIN nu |->
                    Toned(IF alive[cell] = 0 THEN Stretched(cell) ELSE 0)]
    /\ kpc' = "palette"
    /\ UNCHANGED <<palette, gamma, custom_palette, custom_accent, rgb>>
    /\ KernelUntouched

\* Lines 569-580: every pixel, alive or not, gets the ramp colour of its t.
ApplyPalette ==
    /\ kpc = "palette"
    /\ rgb' = [cell \in DOMAIN t_buf |-> Ramp(t_buf[cell])]
    /\ kpc' = "interior"
    /\ UNCHANGED <<palette, gamma, custom_palette, custom_accent, t_buf>>
    /\ KernelUntouched

\* Lines 582-593: rgb[alive] = interior, then the array is returned.
ApplyInterior ==
    /\ kpc = "interior"
    /\ rgb' = [cell \in DOMAIN rgb |->
                  IF InteriorMask(cell) THEN Interior ELSE rgb[cell]]
    /\ kpc' = "returned"
    /\ UNCHANGED <<palette, gamma, custom_palette, custom_accent, t_buf>>
    /\ KernelUntouched

NextJulia ==
    \/ Schedule
    \/ Run
    \/ KernelReturn
    \/ FallbackIterate
    \/ FallbackFinish
    \/ Normalize
    \/ ApplyPalette
    \/ ApplyInterior

\* "#140b42" and "#ff8000" as hex digits.
MainColour == <<1, 4, 0, 11, 4, 2>>

AccentColour == <<15, 15, 8, 0, 0, 0>>

\* (palette, custom_palette, custom_accent, gamma) of the calls of julia:
\* named palettes, a name that is in no table, and the custom palette with
\* both, one or none of its colours.
JuliaColourings ==
    { <<"fire", None, None, 1>>,
      <<"ocean", None, None, 2>>,
      <<"ethereal", None, None, 1>>,
      <<"neon", None, None, 1>>,
      <<"ocean", Some(MainColour), Some(AccentColour), 1>>,
      <<"custom", Some(MainColour), Some(AccentColour), 1>>,
      <<"custom", Some(AccentColour), None, 2>>,
      <<"custom", None, None, 1>> }

InitJulia ==
    /\ NoRender
    /\ GuiIdle
    /\ FeaturesIdle
    /\ VideosIdle
    /\ UiIdle
    /\ \E col \in JuliaColourings :
          /\ palette = col[1]
          /\ custom_palette = col[2]
          /\ custom_accent = col[3]
          /\ gamma = col[4]
    /\ t_buf = << >>
    /\ rgb = << >>
    /\ \E view \in KernelViews, c \in KernelConstants :
          /\ kcr = c[1]
          /\ kci = c[2]
          /\ KernelEntered(
                [cell \in (0..(KernelH - 1)) \X (0..(KernelW - 1)) |->
                    << Linspace(view[1], view[2], KernelW, cell[2]),
                       Linspace(view[3], view[4], KernelH, cell[1]) >>],
                KernelMaxIter)

SpecJulia == InitJulia /\ [][NextJulia]_vars

\* ------------------------------------- audio_features: the conditioner
\* 1.0 of the smoothing coefficients, which are in hundredths.
AlphaOne == 10 * 10

\* The 1e-12 of line 7: the smallest step of the raw values.
NormEps == 0 + 1

\* Variant: the minimum of the clipped array is not subtracted.
NormBaseZero(xc) == 0

\* Line 7: x.min().
NormBase(xc) == SeqMin(xc)

\* Lines 4-7: _norm01_robust, the result in thousandths.
_norm01_robust(xs) ==
    LET p5 == Percentile(xs, 5)
        p95 == Percentile(xs, 95)
        xc == [k \in DOMAIN xs |-> ClipTo(xs[k], p5, p95)]
    IN [k \in DOMAIN xs |->
           TruncDiv((xc[k] - NormBase(xc)) * FeatureOne,
                    SeqMax(xc) - SeqMin(xc) + NormEps)]

\* Variant: the previous output is weighted with 1 + a.
BlendOvershoot(coef, xi, prev) ==
    TruncDiv(coef * xi + (AlphaOne + coef) * prev, AlphaOne)

\* Line 19: a * x[i] + (1 - a) * out[i-1], rounded to the fixed point.
Blend(coef, xi, prev) ==
    TruncDiv(coef * xi + (AlphaOne - coef) * prev, AlphaOne)

\* The conditioner leaves the render, its callers and julia alone.
FeaturesOnly ==
    UNCHANGED <<inputs, pc, exc, locals, plane, encoder, history, cancel, files,
                gui, kern, colour, videos, ui>>

\* Lines 82-83: rms_n = _norm01_robust(rms).
Norm01Robust ==
    /\ fpc = "norm"
    /\ x_n' = _norm01_robust(raw_x)
    /\ fpc' = "smooth"
    /\ UNCHANGED <<raw_x, alpha_up, alpha_down, out>>
    /\ FeaturesOnly

\* Lines 15-16: out = np.empty_like(x); out[0] = x[0].
SmoothFirst ==
    /\ fpc = "smooth"
    /\ out' = << x_n[1] >>
    /\ fpc' = "loop"
    /\ UNCHANGED <<raw_x, x_n, alpha_up, alpha_down>>
    /\ FeaturesOnly

\* Lines 17-20: one pass of the loop, or the return after the last one.
SmoothStep ==
    /\ fpc = "loop"
    /\ IF Len(out) < Len(x_n)
       THEN LET xi == x_n[Len(out) + 1]
                prev == out[Len(out)]
                coef == IF xi > prev THEN alpha_up ELSE alpha_down
            IN /\ out' = Append(out, Blend(coef, xi, prev))
               /\ fpc' = fpc
       ELSE /\ fpc' = "done"
            /\ out' = out
    /\ UNCHANGED <<raw_x, x_n, alpha_up, alpha_down>>
    /\ FeaturesOnly

NextFeatures ==
    \/ Norm01Robust
    \/ SmoothFirst
    \/ SmoothStep

NextSmooth ==
    \/ SmoothFirst
    \/ SmoothStep

\* Raw feature values: negative, zero, small, and an outlier far above.
RawLevels == {0 - 40, 0, 20, 5000}

\* (alpha_up, alpha_down): those of extract_features (lines 85-86) and the
\* ends of [0, 1].
AlphaPairs == { <<10, 4>>, <<6, 2>>, <<0, AlphaOne>>, <<AlphaOne, 0>> }

\* Values of an array handed to smooth_ar directly, in thousandths.
SmoothLevels == {0 - 500, 0, 333, FeatureOne}

\* The non-empty arrays over a set of values, up to MaxLen long.
Arrays(S) == UNION { [1..n -> S] : n \in 1..MaxLen }

\* extract_features has computed a raw feature array.
InitFeatures ==
    /\ NoRender
    /\ GuiIdle
    /\ KernelIdle
    /\ ColourIdle
    /\ VideosIdle
    /\ UiIdle
    /\ fpc = "norm"
    /\ raw_x \in Arrays(RawLevels)
    /\ x_n = << >>
    /\ out = << >>
    /\ \E al \in AlphaPairs : alpha_up = al[1] /\ alpha_down = al[2]

SpecFeatures == InitFeatures /\ [][NextFeatures]_vars

\* smooth_ar has been called with an array x.
InitSmooth ==
    /\ NoRender
    /\ GuiIdle
    /\ KernelIdle
    /\ ColourIdle
    /\ VideosIdle
    /\ UiIdle
    /\ fpc = "smooth"
    /\ raw_x = << >>
    /\ x_n \in Arrays(SmoothLevels)
    /\ out = << >>
    /\ \E al \in AlphaPairs : alpha_up = al[1] /\ alpha_down = al[2]

SpecSmooth == InitSmooth /\ [][NextSmooth]_vars

\* ------------------------------------------------------- video_manager
\* Variant: a path under none of the roots is returned as it is.
KeepOutsideAbsolute(p) ==
    IF p.form = "absolute" /\ p.loc = "app"
    THEN [p EXCEPT !.form = "relative"]
    ELSE p

\* Lines 25-53: _to_relative_path.
_to_relative_path(p) ==
    IF p.form = "absolute"
    THEN IF p.loc = "app"
         THEN [p EXCEPT !.form = "relative"]
         ELSE [p EXCEPT !.form = "name"]
    ELSE p

\* Lines 55-96: _to_absolute_path, as the place <<loc, name>> the result
\* points to: an absolute path is kept, anything else ends under APP_ROOT
\* (a bare name is looked up under the three roots and defaults to
\* APP_ROOT / name).
_to_absolute_path(p) ==
    IF p.form = "absolute" THEN <<p.loc, p.name>> ELSE <<"app", p.name>>

\* str(_to_absolute_path(p))
AbsolutePathOf(p) == PathOf("absolute", _to_absolute_path(p)[1], _to_absolute_path(p)[2])

\* video_path.exists()
Exists(place) == place \in disk

\* An entry of a stem's list.  "file" is the place of the registered video.
VideoInfo(id, place, path, audio_file) ==
    [id |-> id, file |-> place, path |-> path, audio_file |-> audio_file]

\* Lines 139-144 and 108-124: both paths of an entry made relative.
Relativised(info) ==
    [info EXCEPT !.path = _to_relative_path(@),
                 !.audio_file = _to_relative_path(@)]

RelativisedAll(md) ==
    [stem \in Stems |->
        [md[stem] EXCEPT !.videos =
            [k \in DOMAIN md[stem].videos |-> Relativised(md[stem].videos[k])]]]

\* Lines 135-147: save_metadata, the content written to metadata.json.
save_metadata(md) == RelativisedAll(md)

\* Lines 98-133: load_metadata, the dict returned (the file is rewritten
\* with the same content when a path was migrated).
load_metadata == RelativisedAll(metadata_file)

Without(list, k) == [j \in 1..(Len(list) - 1) |-> IF j < k THEN list[j] ELSE list[j + 1]]

\* Lines 199-212: the for loop over metadata[audio_stem], which removes
\* from the list it iterates over: the iterator is at index k, a remove
\* shifts the rest of the list down and the iterator still advances.
RECURSIVE ScanVideos(_, _, _)
ScanVideos(list, k, found) ==
    IF k > Len(list)
    THEN [list |-> list, videos |-> found]
    ELSE IF Exists(_to_absolute_path(list[k].path))
         THEN ScanVideos(list, k + 1,
                         Append(found, [list[k] EXCEPT !.path = AbsolutePathOf(@),
                                                       !.audio_file = AbsolutePathOf(@)]))
         ELSE ScanVideos(Without(list, k), k + 1, found)

\* video_manager leaves everything else alone.
VideosOnly ==
    UNCHANGED <<inputs, pc, exc, locals, plane, encoder, history, cancel, files,
                gui, kern, colour, features, ui>>

\* Lines 165-190: register_video for a video that has just been written.
register_video(stem, video_loc) ==
    /\ next_file <= MaxRegistered
    /\ LET md == load_metadata
           list == md[stem].videos
           video_info == VideoInfo(Len(list) + 1,
                                   <<video_loc, next_file>>,
                                   _to_relative_path(PathOf("absolute", video_loc, next_file)),
                                   _to_relative_path(PathOf("absolute", AudioLoc(stem), stem)))
       IN /\ metadata_file' = save_metadata(
                 [md EXCEPT ![stem] = [present |-> TRUE,
                                       videos |-> Append(list, video_info)]])
          /\ last_call' = [NoCall EXCEPT !.op = "register", !.stem = stem,
                                         !.info = <<video_info>>, !.ok = TRUE]
    /\ disk' = disk \cup {<<video_loc, next_file>>}
    /\ next_file' = next_file + 1
    /\ VideosOnly

RegisterVideo == \E stem \in Stems, video_loc \in {"app", "outside"} :
                    register_video(stem, video_loc)

\* Lines 192-215: get_videos_for_audio.
get_videos_for_audio(stem) ==
    /\ LET md == load_metadata
           scan == ScanVideos(md[stem].videos, 1, << >>)
       IN IF md[stem].present
          THEN /\ metadata_file' = save_metadata(
                      [md EXCEPT ![stem] = [present |-> TRUE, videos |-> scan.list]])
               /\ last_call' = [NoCall EXCEPT !.op = "get", !.stem = stem, !.ok = TRUE,
                                              !.videos = scan.videos,
                                              !.before = metadata_file]
          ELSE /\ metadata_file' = md
               /\ last_call' = [NoCall EXCEPT !.op = "get", !.stem = stem, !.ok = TRUE,
                                              !.before = metadata_file]
    /\ UNCHANGED <<disk, next_file>>
    /\ VideosOnly

GetVideosForAudio == \E stem \in Stems : get_videos_for_audio(stem)

\* Lines 238-260: delete_video; no statement of the try block raises for
\* a dict that register_video or get_videos_for_audio returned.
delete_video(video_info) ==
    /\ LET video_path == _to_absolute_path(video_info.path)
           md == load_metadata
           audio_stem == video_info.audio_file.name
           kept == SelectSeq(md[audio_stem].videos,
                             LAMBDA v : v.id # video_info.id)
       IN /\ disk' = disk \ {video_path}
          /\ metadata_file' =
                IF md[audio_stem].present
                THEN save_metadata(
                        [md EXCEPT ![audio_stem] =
                            IF kept = << >> THEN NoKey
                            ELSE [present |-> TRUE, videos |-> kept]])
                ELSE md
          /\ last_call' = [NoCall EXCEPT !.op = "delete", !.stem = audio_stem,
                                         !.info = <<video_info>>, !.ok = TRUE,
                                         !.before = metadata_file]
    /\ UNCHANGED next_file
    /\ VideosOnly

\* The dicts that the video list of the GUI holds: the entries of the
\* metadata, as register_video returned them.
Listed == UNION { {metadata_file[stem].videos[k] : k \in DOMAIN metadata_file[stem].videos}
                  : stem \in Stems }

DeleteVideo == \E video_info \in Listed : delete_video(video_info)

\* A caller saves a dict whose paths it has made absolute (the form in
\* which get_videos_for_audio hands entries out).
SaveMetadata ==
    /\ last_call.op # "save"
    /\ Listed # {}
    /\ metadata_file' = save_metadata(
           [stem \in Stems |->
               [metadata_file[stem] EXCEPT !.videos =
                   [k \in DOMAIN @ |-> [@[k] EXCEPT !.path = PathOf("absolute", @.loc, @.name),
                                                    !.audio_file.form = "absolute"]]]])
    /\ last_call' = [NoCall EXCEPT !.op = "save", !.ok = TRUE]
    /\ UNCHANGED <<disk, next_file>>
    /\ VideosOnly

\* load_metadata called on its own: a file with absolute paths is migrated.
LoadMetadata ==
    /\ last_call.op # "load"
    /\ metadata_file' = load_metadata
    /\ last_call' = [NoCall EXCEPT !.op = "load", !.ok = TRUE]
    /\ UNCHANGED <<disk, next_file>>
    /\ VideosOnly

\* A video file is removed behind the application's back; what the last
\* call returned is out of date.
FileLost ==
    /\ \E place \in disk :
          /\ \E video_info \in Listed : video_info.file = place
          /\ disk' = disk \ {place}
    /\ last_call' = [last_call EXCEPT !.op = IF @ = "none" THEN @ ELSE "stale"]
    /\ UNCHANGED <<metadata_file, next_file>>
    /\ VideosOnly

NextVideos ==
    \/ RegisterVideo
    \/ GetVideosForAudio
    \/ DeleteVideo
    \/ SaveMetadata
    \/ LoadMetadata
    \/ FileLost

NextRegistry ==
    \/ RegisterVideo
    \/ DeleteVideo

\* A metadata.json of an earlier version: one video, with absolute paths.
LegacyMetadata ==
    [EmptyMetadata EXCEPT !["song"] =
        [present |-> TRUE,
         videos |-> << VideoInfo(1, <<"app", 1>>, PathOf("absolute", "app", 1),
                                 PathOf("absolute", "app", "song")) >>]]

InitRegistry ==
    /\ NoRender
    /\ GuiIdle
    /\ KernelIdle
    /\ ColourIdle
    /\ FeaturesIdle
    /\ VideosIdle
    /\ UiIdle

SpecRegistry == InitRegistry /\ [][NextRegistry]_vars

InitVideos ==
    /\ NoRender
    /\ GuiIdle
    /\ KernelIdle
    /\ ColourIdle
    /\ FeaturesIdle
    /\ UiIdle
    /\ metadata_file = LegacyMetadata
    /\ disk = {<<"app", 1>>}
    /\ next_file = 2
    /\ last_call = NoCall

SpecVideos == InitVideos /\ [][NextVideos]_vars

\* -------------------------------------- gui.py: generation and its queue
\* A worker thread that start_generation has just started.
NewWorker ==
    [pc |-> "begin", outcome |-> "pending", pending |-> << >>, reported |-> 0,
     errors |-> 0, dones |-> 0, processed |-> FALSE]

\* Lines 1562-1569: the messages of a run that completed, in order.
SuccessMessages == <<"status", "progress", "done", "refresh_videos">>

\* Variant: the except clause reports the error only.
ExceptMessagesNoDone == <<"error">>

\* Lines 1571-1573: the messages of the except clause, in order.
ExceptMessages == <<"error", "done">>

\* Variant: the check of is_generating is missing.
MayStartAlways == TRUE

\* Lines 1296-1298: a generation in progress refuses the request.
MayStart == ~is_generating

\* The generation protocol leaves the render pipeline and the rest alone.
UiOnly ==
    UNCHANGED <<inputs, pc, exc, locals, plane, encoder, kernel_calls, calls, cancel,
                files, gui, kern, colour, features, videos>>

\* Lines 1290-1302: the Generate button with a valid audio file selected.
\* A generation in progress gets a warning and nothing else; otherwise the
\* modal title dialog opens (its wait_window runs the event loop, so
\* check_queue keeps being called while it is open).
StartGeneration ==
    /\ ui_pc = "idle"
    /\ Len(workers) < MaxWorkers
    /\ MayStart
    /\ ui_pc' = "dialog"
    /\ UNCHANGED <<is_generating, workers, message_queue>>
    /\ UiOnly

\* Lines 1301-1317: the dialog is closed; with a title the flag is set and
\* the worker thread is started.
TitleDialog ==
    /\ ui_pc = "dialog"
    /\ \E cancelled \in BOOLEAN :
          IF cancelled
          THEN UNCHANGED <<is_generating, workers>>
          ELSE /\ is_generating' = TRUE
               /\ workers' = Append(workers, NewWorker)
    /\ ui_pc' = "idle"
    /\ UNCHANGED message_queue
    /\ UiOnly

\* Line 1322: the first statement of the worker's try block.
WorkerBegin(w) ==
    /\ workers[w].pc = "begin"
    /\ message_queue' = Append(message_queue, <<"status", w>>)
    /\ workers' = [workers EXCEPT ![w].pc = "render"]
    /\ UNCHANGED <<is_generating, ui_pc>>
    /\ UiOnly

\* Lines 1485-1490: the progress callback, called from inside the render.
WorkerReport(w) ==
    /\ workers[w].pc = "render"
    /\ workers[w].reported < MaxReports
    /\ message_queue' = message_queue \o << <<"progress", w>>, <<"status", w>> >>
    /\ workers' = [workers EXCEPT ![w].reported = @ + 1]
    /\ UNCHANGED <<is_generating, ui_pc>>
    /\ UiOnly

\* Lines 1323-1560: feature extraction and the render call return, or one
\* of them raises and control passes to the except clause of line 1571.
WorkerRender(w) ==
    /\ workers[w].pc = "render"
    /\ \E raised \in BOOLEAN :
          workers' = [workers EXCEPT
                         ![w].pc = "tail",
                         ![w].outcome = IF raised THEN "raised" ELSE "returned",
                         ![w].pending = IF raised THEN ExceptMessages
                                        ELSE SuccessMessages]
    /\ UNCHANGED <<is_generating, ui_pc, message_queue>>
    /\ UiOnly

\* Lines 1562-1573: the next message_queue.put of the worker's tail; the
\* thread ends after the last one.
WorkerPut(w) ==
    /\ workers[w].pc = "tail"
    /\ IF workers[w].pending = << >>
       THEN /\ workers' = [workers EXCEPT ![w].pc = "ended"]
            /\ UNCHANGED message_queue
       ELSE LET type == Head(workers[w].pending)
            IN /\ message_queue' = Append(message_queue, <<type, w>>)
               /\ workers' = [workers EXCEPT
                                 ![w].pending = Tail(@),
                                 ![w].errors = IF type = "error" THEN @ + 1 ELSE @,
                                 ![w].dones = IF type = "done" THEN @ + 1 ELSE @]
    /\ UNCHANGED <<is_generating, ui_pc>>
    /\ UiOnly

\* Lines 1578-1594: check_queue takes one message and handles it; 'done'
\* clears is_generating, the other handlers touch widgets only.
ProcessMessage ==
    /\ message_queue # << >>
    /\ LET msg == Head(message_queue)
       IN IF msg[1] = "done"
          THEN /\ is_generating' = FALSE
               /\ workers' = [workers EXCEPT ![msg[2]].processed = TRUE]
          ELSE UNCHANGED <<is_generating, workers>>
    /\ message_queue' = Tail(message_queue)
    /\ UNCHANGED ui_pc
    /\ UiOnly

Begin == \E w \in DOMAIN workers : WorkerBegin(w)

Report == \E w \in DOMAIN workers : WorkerReport(w)

Render == \E w \in DOMAIN workers : WorkerRender(w)

Put == \E w \in DOMAIN workers : WorkerPut(w)

NextUi ==
    \/ StartGeneration
    \/ TitleDialog
    \/ Begin
    \/ Report
    \/ Render
    \/ Put
    \/ ProcessMessage

InitUi ==
    /\ NoRender
    /\ GuiIdle
    /\ KernelIdle
    /\ ColourIdle
    /\ FeaturesIdle
    /\ VideosIdle
    /\ UiIdle

SpecUi == InitUi /\ [][NextUi]_vars

\* The worker threads run to their end and the Tk event loop keeps calling
\* check_queue (line 1599 re-arms it every 100 ms).
SpecUiFair ==
    /\ SpecUi
    /\ WF_vars(Begin)
    /\ WF_vars(Render)
    /\ WF_vars(Put)
    /\ WF_vars(ProcessMessage)

NextCancel ==
    \/ Next
    \/ RequestCancel

SpecCancel == Init /\ [][NextCancel]_vars

\* ================================================================ claims
\* Target constant of the frame with zero-based index idx, from the inputs.
TargetReal(idx) ==
    preset.base_c_real + c_base_offset_real
        + TruncDiv(preset.amp_real * (rms[idx + 1] - FeatureHalf), FeatureOne)

TargetImag(idx) ==
    preset.base_c_imag + c_base_offset_imag
        + TruncDiv(preset.amp_imag * (cent[idx + 1] - FeatureHalf), FeatureOne)

\* The frame loop ran to its end without an exception.
LoopCompleted == writer = "closed" /\ exc \in {"none", "mux"}

\* C1: frames reach the encoder in strictly increasing frame-index order:
\* the k-th append carries the frame rendered from input pair k-1, so no
\* index is appended twice and frame i+1 never precedes frame i.
C1_AppendInIndexOrder ==
    \A k \in 1..Len(appended) :
        /\ appended[k].index = k - 1
        /\ k <= Len(kernel_calls)
        /\ appended[k].c_real = kernel_calls[k].c_real
        /\ appended[k].c_imag = kernel_calls[k].c_imag

C1_Witness == Len(appended) >= 2 /\ pc = "returned"

\* C2: once opened, the writer is closed exactly once on every exit path
\* of the frame loop, and no frame is appended after the close.
C2_ClosedExactlyOnce ==
    /\ [](close_count <= 1)
    /\ []((Ended /\ exc # "open") => (close_count = 1 /\ writer = "closed"))
    /\ [][writer = "closed" => appended' = appended]_vars

C2_Witness == pc = "raised" /\ exc = "callback" /\ close_count = 1

\* C3: once cancellation is requested while frame i is being produced, no
\* frame with a greater index is appended to the encoder.
C3_CancelStopsFrames ==
    cancel_requested =>
        \A k \in 1..Len(appended) : appended[k].index <= cancel_frame

\* C4: a failed append of frame i is fatal: no later frame is rendered or
\* appended, the callback is not invoked for frame i, the writer is closed
\* and the failure propagates instead of a path being returned.
C4_AppendFailureFatal ==
    exc = "append" =>
        /\ pc \in {"finally", "raised"}
        /\ Len(appended) = i
        /\ Len(kernel_calls) = i + 1
        /\ \A k \in 1..Len(calls) : calls[k][1] <= i
        /\ pc = "raised" => (writer = "closed" /\ close_count = 1)

C4_Witness == exc = "append" /\ pc = "raised" /\ i >= 1 /\ Len(calls) = i

\* C5: when the audio-mux step fails, the call still returns video_path
\* without raising and the file at video_path is the silent video written
\* by the encoder.
C5_MuxFailureKeepsSilentVideo ==
    (mux_failed /\ Ended /\ Len(appended) > 0) =>
        (pc = "returned" /\ fs_video = "silent")

\* C6: with a callback and arrays of equal length n, the k-th call has the
\* arguments (k, n), comes after frame k-1 was appended and before frame k
\* is rendered, and a completed loop has made exactly n calls.
C6_CallbackPerFrame ==
    (progress_callback # "None" /\ Len(rms) = Len(cent)) =>
        /\ \A k \in 1..Len(calls) : calls[k] = <<k, Len(rms)>>
        /\ Len(calls) <= Len(appended)
        /\ Len(kernel_calls) <= Len(calls) + 1
        /\ LoopCompleted => Len(calls) = Len(rms)

C6_Witness ==
    /\ progress_callback = "gui"
    /\ Len(rms) = Len(cent)
    /\ pc = "returned"
    /\ Len(calls) >= 2

\* C7: the callback is purely observational: whatever it does, the frames
\* handed to the encoder are those of a run without a callback, that is,
\* all frames of the input unless grid, kernel, resize or append failed.
C7_CallbackObservational ==
    (Ended /\ exc \in {"none", "callback", "mux"}) => Len(appended) = NumFrames

\* C8: prev_real / prev_imag are None exactly until the first continuity
\* step has run, and afterwards hold the constant passed to the kernel for
\* the frame processed last.
C8_PrevIsKernelConstant ==
    LET n == Len(kernel_calls)
        ran == (pc = "kernel" \/ n > 0)
    IN /\ (prev_real = None) <=> ~ran
       /\ (prev_imag = None) <=> ~ran
       /\ pc = "kernel" =>
             (prev_real = Some(c_real_s) /\ prev_imag = Some(c_imag_s))
       /\ (n > 0 /\ pc # "kernel") =>
             /\ prev_real = Some(kernel_calls[n].c_real)
             /\ prev_imag = Some(kernel_calls[n].c_imag)

C8_Witness ==
    /\ Len(kernel_calls) >= 2
    /\ pc = "callback"
    /\ prev_real # Some(c_real)

\* C9 as stated: the constant of the first frame equals the mapped target
\* in the real and in the imaginary part.
C9_FirstFrameIsTarget ==
    Len(kernel_calls) >= 1 =>
        /\ kernel_calls[1].c_real = TargetReal(0)
        /\ kernel_calls[1].c_imag = TargetImag(0)

\* C9 amended: the constant of the first frame equals the mapped target in
\* the real part and the mapped target plus the drift amplitude in the
\* imaginary part.
C9_FirstFrameIsTargetPlusDrift ==
    Len(kernel_calls) >= 1 =>
        /\ kernel_calls[1].c_real = TargetReal(0)
        /\ kernel_calls[1].c_imag = TargetImag(0) + drift

C9_Witness == Len(kernel_calls) = 1 /\ i = 0 /\ pc = "resize"

\* C10: from the second frame on, each component of the emitted constant
\* moves by at most alpha_c * |target - previous constant| + drift, and it
\* does not land on a target that lies farther away than that.
C10_BoundedStep ==
    \A k \in 2..Len(kernel_calls) :
        LET pr == kernel_calls[k - 1].c_real
            pim == kernel_calls[k - 1].c_imag
            dr == Abs(TargetReal(k - 1) - pr)
            di == Abs(TargetImag(k - 1) - pim)
        IN /\ 100 * Abs(kernel_calls[k].c_real - pr) <= alpha_c * dr + 100 * drift
           /\ 100 * Abs(kernel_calls[k].c_imag - pim) <= alpha_c * di + 100 * drift
           /\ (100 - alpha_c) * dr > 100 * drift =>
                 kernel_calls[k].c_real # TargetReal(k - 1)
           /\ (100 - alpha_c) * di > 100 * drift =>
                 kernel_calls[k].c_imag # TargetImag(k - 1)

C10_Witness ==
    /\ Len(kernel_calls) >= 2
    /\ rms[1] # rms[2]
    /\ cent[1] # cent[2]

\* C11 as stated: with the calm preset and a constant stream of 0.5 the
\* constant settles on (-0.62, 0.43), so every frame after the first three
\* is rendered from the same constant as the frame before it.
C11_SettlesOnBase ==
    \A k \in 5..Len(kernel_calls) :
        /\ kernel_calls[k].c_real = preset.base_c_real
        /\ kernel_calls[k].c_imag = preset.base_c_imag
        /\ kernel_calls[k].c_real = kernel_calls[k - 1].c_real
        /\ kernel_calls[k].c_imag = kernel_calls[k - 1].c_imag

\* C11 amended: the constant of every frame stays within drift / alpha_c
\* (0.005) of (-0.62, 0.43) in each component, but the micro drift moves
\* both components at every frame, so no two consecutive frames are
\* rendered from the same constant.
C11_HoversNearBase ==
    \A k \in 1..Len(kernel_calls) :
        /\ alpha_c * Abs(kernel_calls[k].c_real - preset.base_c_real) <= 100 * drift
        /\ alpha_c * Abs(kernel_calls[k].c_imag - preset.base_c_imag) <= 100 * drift
        /\ k >= 2 =>
              /\ kernel_calls[k].c_real # kernel_calls[k - 1].c_real
              /\ kernel_calls[k].c_imag # kernel_calls[k - 1].c_imag

C11_Witness == Len(kernel_calls) = CalmFrames /\ pc = "returned"

\* The view grid of a w x h frame rotated about the view centre by n
\* rotation increments.
RotatedView(w, h, n) == RotateAboutCentre(MakePlane(w, h), n)

\* Two planes hold the same complex number at every pixel.
SamePlane(P, Q) ==
    /\ P.width = Q.width
    /\ P.height = Q.height
    /\ \A row \in 0..(P.height - 1), col \in 0..(P.width - 1) :
          PlanePoint(P, row, col) = PlanePoint(Q, row, col)

\* C12 as stated: with rotation_enabled (and no z offset) the grid passed
\* to the kernel at frame i is the unrotated view grid rotated about the
\* view centre by exactly i + 1 rotation increments, with
\* dynamic_dimensions on or off.
C12_RotatedByAccumulatedAngle ==
    (rotation_enabled /\ z_offset_real = 0 /\ z_offset_imag = 0) =>
        \A k \in 1..Len(kernel_calls) :
            SamePlane(kernel_calls[k].Z0,
                      RotatedView(kernel_calls[k].width, kernel_calls[k].height,
                                  kernel_calls[k].index + 1))

\* C13 as stated, rotation off: with a non-zero z offset the grid passed to
\* the kernel at every frame is the view grid plus exactly one copy of the
\* offset, with dynamic_dimensions on or off.
C13_OffsetAppliedOnce ==
    ((z_offset_real # 0 \/ z_offset_imag # 0) /\ ~rotation_enabled) =>
        \A k \in 1..Len(kernel_calls) :
            SamePlane(kernel_calls[k].Z0,
                      AddOffset(MakePlane(kernel_calls[k].width, kernel_calls[k].height),
                                z_offset_real, z_offset_imag))

\* C14: every julia call of the frame loop receives a grid whose shape is
\* (current_height, current_width) of that frame, and the shape-mismatch
\* ValueError of julia is never raised.
C14_GridShapeMatchesFrame ==
    /\ exc # "Z0_shape"
    /\ \A k \in 1..Len(kernel_calls) :
          /\ kernel_calls[k].Z0.height = kernel_calls[k].height
          /\ kernel_calls[k].Z0.width = kernel_calls[k].width

C14_Witness ==
    /\ dynamic_dimensions /\ rotation_enabled /\ z_offset_real # 0
    /\ \E k \in 1..Len(kernel_calls) :
          /\ kernel_calls[k].index >= 1
          /\ kernel_calls[k].width # width
    /\ \E k \in 1..Len(kernel_calls) : kernel_calls[k].height # kernel_calls[k].width

\* C15: the reusable buffers are sized once before the loop and never
\* change afterwards; with dynamic_dimensions and dimension_factor >= 1 no
\* frame is larger than the buffers and the per-frame slice has exactly
\* the frame's shape.
C15_BuffersCoverEveryFrame ==
    /\ [](  (dynamic_dimensions /\ dimension_factor[1] >= dimension_factor[2]) =>
              \A k \in 1..Len(kernel_calls) :
                  /\ kernel_calls[k].width <= max_width
                  /\ kernel_calls[k].height <= max_height
                  /\ kernel_calls[k].t_buf_width = kernel_calls[k].width
                  /\ kernel_calls[k].t_buf_height = kernel_calls[k].height)
    /\ [][pc # "start" => UNCHANGED <<max_width, max_height>>]_vars

C15_Witness ==
    /\ dynamic_dimensions
    /\ dimension_factor[1] >= dimension_factor[2]
    /\ pc = "returned"
    /\ Len(kernel_calls) = MaxFrames
    /\ kernel_calls[Len(kernel_calls)].width > width
    /\ kernel_calls[Len(kernel_calls)].width <= max_width

\* C16: every frame appended to the encoder has the configured output
\* size, whatever size it was rendered at.
C16_AppendedAtOutputSize ==
    \A k \in 1..Len(appended) :
        /\ appended[k].width = width
        /\ appended[k].height = height

C16_Witness ==
    /\ dynamic_dimensions
    /\ \E k \in 1..Len(appended) :
          /\ appended[k].index >= 1
          /\ \E j \in 1..Len(kernel_calls) :
                /\ kernel_calls[j].index = appended[k].index
                /\ kernel_calls[j].width # width

\* C18 as stated: a non-finite preset value (here gamma) makes the render
\* fail before any frame is appended to the encoder.
C18_NonFiniteFailsFast ==
    ~preset.gamma.finite => appended = << >>

\* C17: a render leaves the preset it was passed as it found it, whether it
\* returns or raises, and the dicts of the shared JULIA_PRESETS table hold
\* their original values whatever the callers have done.
C17_PresetNeverMutated ==
    /\ \A r \in DOMAIN PresetNames : heap[r] = JULIA_PRESETS[PresetNames[r]]
    /\ (caller = "main" /\ pc \in {"returned", "raised"}) =>
          /\ heap[preset_ref] = entry_preset
          /\ preset = entry_preset
    /\ worker_pc = "except" => heap[preset_ref] = entry_preset

C17_Witness ==
    /\ renders = MaxRenders
    /\ worker_pc = "except"
    /\ settings.intensity # 100
    /\ heap[preset_ref].amp_real # JULIA_PRESETS["calm"].amp_real
    /\ heap[preset_ref].video_quality # None
    /\ \E m \in 1..Len(message_queue) : message_queue[m][1] = "error"

\* The kernel run sequentially on one pixel: the iteration of lines 423-454
\* from iteration k on.
RECURSIVE PixelResult(_, _, _, _)
PixelResult(z, c, k, n) ==
    IF k >= n
    THEN [nu |-> NuZero, alive |-> 1]
    ELSE IF Mag2(JuliaStep(z, c)) > EscapeMag2
    THEN [nu |-> [k |-> k, mag2 |-> Mag2(JuliaStep(z, c))], alive |-> 0]
    ELSE PixelResult(JuliaStep(z, c), c, k + 1, n)

\* C19: whatever rows the parallel workers take and however their steps
\* interleave, a store goes only to the cell of the pixel its worker is at,
\* and the fields returned are those of the sequential pixel-by-pixel run.
C19_SchedulingIndependent ==
    /\ []( (kpc = "done" /\ NUMBA_AVAILABLE) =>
             \A cell \in DOMAIN nu :
                LET ref == PixelResult(<<Z0_real[cell], Z0_imag[cell]>>,
                                       <<kcr, kci>>, 0, max_iter)
                IN nu[cell] = ref.nu /\ alive[cell] = ref.alive )
    /\ [][ kpc = "numba" =>
             \A cell \in DOMAIN nu :
                (nu'[cell] # nu[cell] \/ alive'[cell] # alive[cell]) =>
                   \E t \in DOMAIN thread :
                      thread[t].busy /\ cell = <<thread[t].y, thread[t].x>> ]_vars

C19_Witness ==
    /\ kpc = "done"
    /\ NUMBA_AVAILABLE
    /\ \E cell \in DOMAIN alive : alive[cell] = 0 /\ cell[1] > 0
    /\ \E cell \in DOMAIN alive : alive[cell] = 1
    /\ \E c1, c2 \in DOMAIN nu : nu[c1].k # nu[c2].k /\ alive[c1] = 0 /\ alive[c2] = 0

\* C20: with c = (0, 0), power 2 and max_iter = 50 the pixel at the origin
\* is still alive with nu = 0 when the kernel returns, and the pixel at
\* (3, 0) is marked escaped with escape iteration 0, on the compiled and on
\* the NumPy path.
C20_OriginStaysThreeEscapes ==
    (kpc = "done" /\ max_iter = OriginMaxIter) =>
        \A cell \in DOMAIN nu :
            /\ (Z0_real[cell] = 0 /\ Z0_imag[cell] = 0) =>
                  (alive[cell] = 1 /\ nu[cell] = NuZero)
            /\ (Z0_real[cell] = 3 * KOne /\ Z0_imag[cell] = 0) =>
                  (alive[cell] = 0 /\ nu[cell].k = 0)

C20_Witness ==
    /\ kpc = "done"
    /\ max_iter = OriginMaxIter
    /\ kcr = 0 /\ kci = 0
    /\ \E cell \in DOMAIN nu : Z0_real[cell] = 0 /\ Z0_imag[cell] = 0
    /\ \E cell \in DOMAIN nu : Z0_real[cell] = 3 * KOne /\ alive[cell] = 0
    /\ NUMBA_AVAILABLE => \A y \in DOMAIN row_state : row_state[y] = "done"
    /\ ~NUMBA_AVAILABLE => fb_i = OriginMaxIter

\* The audio-mux step of lines 851-916 is running: ffmpeg was found and the
\* rename of video_path to _temp.mp4 is next or done.
InMux ==
    pc \in {"mux_rename", "mux_run", "mux_ok", "mux_restore", "mux_timeout",
            "mux_except"}

\* An exception raised by the frame loop (lines 755-846), as opposed to one
\* raised by a handler of the mux step.
RenderRaised == exc \notin {"none", "mux"}

\* C30: the audio-mux step starts only after the writer was closed and only
\* when every frame was appended without an error; when rendering raises,
\* no mux is attempted and video_path is never renamed to _temp.mp4.
C30_MuxOnlyAfterCleanClose ==
    /\ [](InMux => /\ writer = "closed"
                   /\ close_count = 1
                   /\ exc = "none"
                   /\ Len(appended) = NumFrames)
    /\ [](RenderRaised => (~InMux /\ fs_temp = "absent" /\ ~mux_failed))
    /\ [][fs_temp' # fs_temp => (writer = "closed" /\ ~RenderRaised)]_vars

C30_Witness ==
    /\ pc = "mux_run"
    /\ fs_temp = "silent"
    /\ fs_video = "absent"
    /\ writer = "closed"
    /\ Len(appended) >= 2

\* The interior colour that a call of julia is to use, from its arguments.
ExpectedInterior ==
    CASE palette = "fire" -> <<0, 0, 0>>
      [] palette = "ocean" -> <<205, 226, 235>>
      [] palette = "ethereal" -> <<20, 11, 66>>
      [] palette = "custom" /\ custom_palette = Some(MainColour) -> <<0, 0, 36>>
      [] palette = "custom" /\ custom_palette = Some(AccentColour) -> <<225, 98, 0>>
      [] OTHER -> <<0, 0, 0>>

\* C21: in the RGB array that julia returns, every pixel that did not
\* escape has exactly the interior colour (the table entry of a named
\* palette, black for an unknown name, the custom main colour lowered by 30
\* and floored at 0 for the custom palette), and every escaped pixel has the
\* ramp colour of its normalised value.
C21_InteriorOnlyWhereAlive ==
    kpc = "returned" =>
        \A cell \in DOMAIN rgb :
            IF alive[cell] = 1
            THEN rgb[cell] = ExpectedInterior
            ELSE rgb[cell] = Ramp(t_buf[cell])

C21_Witness ==
    /\ kpc = "returned"
    /\ palette = "custom"
    /\ custom_palette = Some(MainColour)
    /\ \E cell \in DOMAIN rgb : alive[cell] = 1 /\ rgb[cell] = <<0, 0, 36>>
    /\ \E cell \in DOMAIN rgb : alive[cell] = 0 /\ rgb[cell] # <<0, 0, 36>>

\* The array is constant.
Constant(xs) == \A k \in DOMAIN xs : xs[k] = xs[1]

\* C22: for a non-empty raw array of any scale, with outliers outside the
\* percentile band, every value of smooth_ar(_norm01_robust(x)) with
\* coefficients in [0, 1] lies in [0, 1]; a constant array is normalised
\* without a division by zero and its output is in [0, 1] as well.
C22_ConditionedInUnitRange ==
    /\ \A k \in DOMAIN x_n : 0 <= x_n[k] /\ x_n[k] <= FeatureOne
    /\ \A k \in DOMAIN out : 0 <= out[k] /\ out[k] <= FeatureOne
    /\ (fpc = "done" /\ Constant(raw_x)) =>
           (Len(out) = Len(raw_x) /\ \A k \in DOMAIN out : out[k] = 0)

C22_Witness ==
    /\ fpc = "done"
    /\ Len(raw_x) = MaxLen
    /\ \E k \in DOMAIN raw_x : raw_x[k] > Percentile(raw_x, 95)
    /\ \E k \in DOMAIN raw_x : raw_x[k] < Percentile(raw_x, 5)
    /\ \E k \in DOMAIN out : out[k] > 0 /\ out[k] < FeatureOne

\* v lies between u and w, whichever of the two is the larger.
Between(v, u, w) == (u <= v /\ v <= w) \/ (w <= v /\ v <= u)

\* C23: smooth_ar never overshoots: out[0] = x[0], every later out[i] lies
\* between out[i-1] and x[i], and a constant input array of value v gives
\* an output whose every element is v.
C23_NeverOvershoots ==
    /\ Len(out) <= Len(x_n)
    /\ Len(out) >= 1 => out[1] = x_n[1]
    /\ \A k \in 2..Len(out) : Between(out[k], out[k - 1], x_n[k])
    /\ Constant(x_n) => \A k \in DOMAIN out : out[k] = x_n[1]
    /\ fpc = "done" => Len(out) = Len(x_n)

C23_Witness ==
    /\ fpc = "done"
    /\ Len(out) = MaxLen
    /\ \E k \in 2..Len(out) : out[k - 1] < out[k] /\ out[k] < x_n[k]
    /\ \E k \in 2..Len(out) : out[k - 1] > out[k] /\ out[k] > x_n[k]

\* The entries of a list as a set.
Entries(list) == {list[k] : k \in DOMAIN list}

\* C24 as stated: get_videos_for_audio returns every registered video of
\* the stem whose file exists and leaves no entry with a missing file in
\* the stem's list, whatever the pattern of missing and existing entries.
C24_ReturnsExistingPrunesMissing ==
    last_call.op = "get" =>
        /\ \A v \in Entries(last_call.before[last_call.stem].videos) :
              v.file \in disk =>
                  \E r \in Entries(last_call.videos) : r.id = v.id /\ r.file = v.file
        /\ \A v \in Entries(metadata_file[last_call.stem].videos) : v.file \in disk

\* C25 as stated: after delete_video(v) has returned True, v's file does
\* not exist, the metadata has no entry for v, and the entry of every other
\* registered video is unchanged.
C25_DeleteRemovesOnlyItsVideo ==
    (last_call.op = "delete" /\ last_call.ok) =>
        LET v == last_call.info[1]
        IN /\ v.file \notin disk
           /\ \A stem \in Stems :
                 \A w \in Entries(metadata_file[stem].videos) : w.file # v.file
           /\ \A stem \in Stems :
                 \A w \in Entries(last_call.before[stem].videos) :
                    w.file # v.file => w \in Entries(metadata_file[stem].videos)

\* Every path stored in metadata.json is a relative one.
AllRelative ==
    \A stem \in Stems :
        \A v \in Entries(metadata_file[stem].videos) :
            v.path.form # "absolute" /\ v.audio_file.form # "absolute"

\* C26: after any call of register_video, load_metadata, save_metadata,
\* get_videos_for_audio or delete_video, every 'path' and 'audio_file' of
\* metadata.json is relative, for files outside the application root too.
C26_StoredPathsRelative ==
    /\ [](last_call.op # "none" => AllRelative)
    /\ [][AllRelative => AllRelative']_vars

C26_Witness ==
    /\ last_call.op = "save"
    /\ \E v \in Entries(metadata_file["song"].videos) :
          v.file = <<"app", 1>> /\ v.path.form = "relative"
    /\ \E v \in Entries(metadata_file["tune"].videos) :
          /\ v.file[1] = "outside"
          /\ v.path.form = "name"
          /\ v.audio_file.form = "name"

\* C29 as stated: within one audio stem the ids of the recorded videos are
\* pairwise distinct after any sequence of register_video and delete_video.
C29_IdsDistinctPerStem ==
    \A stem \in Stems :
        LET list == metadata_file[stem].videos
        IN \A j, k \in DOMAIN list : j # k => list[j].id # list[k].id

\* The worker has not yet left its render call.
Rendering(w) == workers[w].pc \in {"begin", "render"}

\* C27: at most one generation worker is rendering at any time: a worker
\* is launched only while is_generating is False, is_generating stays True
\* from the launch until the UI thread has processed that worker's 'done',
\* and 'done' is enqueued only after the render has returned or raised.
C27_OneWorkerAtATime ==
    /\ [](Cardinality({w \in DOMAIN workers : Rendering(w)}) <= 1)
    /\ [](\A w \in DOMAIN workers : ~workers[w].processed => is_generating)
    /\ [](\A w \in DOMAIN workers :
             workers[w].dones > 0 => workers[w].outcome # "pending")
    /\ [][Len(workers') > Len(workers) => ~is_generating]_vars

C27_Witness ==
    /\ Len(workers) = 2
    /\ workers[1].processed
    /\ Rendering(2)
    /\ is_generating

\* C28: every run of the worker enqueues exactly one 'done', on success
\* and on an exception (where exactly one 'error' precedes it), so once the
\* queue is drained is_generating is False again; the generator does not
\* stay in the generating state.
C28_ExactlyOneDone ==
    /\ [](\A w \in DOMAIN workers :
             /\ workers[w].dones <= 1
             /\ workers[w].errors <= 1
             /\ workers[w].dones = 1 =>
                   workers[w].errors = IF workers[w].outcome = "raised" THEN 1 ELSE 0
             /\ workers[w].pc = "ended" => workers[w].dones = 1)
    /\ []((message_queue = << >> /\ \A w \in DOMAIN workers : workers[w].pc = "ended")
             => ~is_generating)
    /\ (is_generating ~> ~is_generating)

C28_Witness ==
    /\ Len(workers) = 2
    /\ workers[1].outcome = "raised"
    /\ workers[1].errors = 1
    /\ workers[2].outcome = "returned"
    /\ workers[2].pc = "ended"
    /\ message_queue = << >>
    /\ ~is_generating

====
